---- MODULE Spec2Model ----
(***************************************************************************)
(* ELife attendance system: the Students record store, the kiosk's         *)
(* confirmation lightbox, the Record Update Service                        *)
(* (updateAttendanceWithNotification), the guardian notification and the   *)
(* two implementations of the Reconciliation Job (checkMissingLogouts).    *)
(*                                                                         *)
(* A timestamp string "YYYY-MM-DD HH:MM:SS" is the pair <<day, time>>: the *)
(* date part as a day number and the time part as an hour of the day.      *)
(* A stored item is a record whose DOMAIN is the set of fields it has, so  *)
(* that a whole-item replace can lose fields.                              *)
(***************************************************************************)
EXTENDS Integers, Sequences, FiniteSets, TLC

\* ------------------------------------------------------------------ bounds
MaxClock == 2

\* the length of a ledger beyond which no further record is appended to it
MaxLedger == 3

\* the longest ledger the decision functions are applied to on their own
MaxProbeLen == 3

\* --------------------------------------------------------- the environment
Students == {"s1", "s2"}

\* the order in which a query over the collection returns the items
StudentOrder == <<"s1", "s2">>

Calls == {"c1"}

Jobs == {"j1"}

\* the civil times of day the clock passes through, in order
ClockTimes == <<8, 23>>

Birthdays == {"b1"}

\* what the kiosk keypad can hold when the action button is pressed
KeypadIds == {"101"}

VARIABLES clock, store, lb, upd, job, probe

vars == <<clock, store, lb, upd, job, probe>>

\* ---------------------------------------------------------------- helpers
Null == [null |-> TRUE]

NoRecord == [none |-> TRUE]

Has(obj, f) == f \in DOMAIN obj

\* !!obj.f for a string field
Truthy(obj, f) == Has(obj, f) /\ obj[f] # ""

\* student.attendanceHistory || []
HistoryOf(student) ==
    IF Has(student, "attendanceHistory") THEN student.attendanceHistory ELSE <<>>

\* { ...student, attendanceHistory: history }
Spread(student, history) ==
    [f \in (DOMAIN student) \cup {"attendanceHistory"} |->
        IF f = "attendanceHistory" THEN history ELSE student[f]]

\* the item without its ledger field
NonLedger(item) == [f \in (DOMAIN item) \ {"attendanceHistory"} |-> item[f]]

JSTDay(c) == c \div Len(ClockTimes)

JSTTime(c) == ClockTimes[(c % Len(ClockTimes)) + 1]

SystemLogoutHour == 22

create24HTimestamp(c) == <<JSTDay(c), JSTTime(c)>>

createJSTTimestamp(c, hours) == <<JSTDay(c), hours>>

\* the YYYY-MM-DD prefix computed at the start of a job run
TodayPrefix(c) == JSTDay(c)

StartsWith(date, prefix) == date[1] = prefix

\* a.localeCompare(b) on two canonical timestamp strings
LocaleCompare(a, b) ==
    IF a[1] < b[1] THEN -1
    ELSE IF a[1] > b[1] THEN 1
    ELSE IF a[2] < b[2] THEN -1
    ELSE IF a[2] > b[2] THEN 1
    ELSE 0

validateTimestamp(ts) ==
    /\ Len(ts) = 2
    /\ ts[1] \in Nat
    /\ ts[2] \in 0..23

createAttendanceRecord(c, status) ==
    [date |-> create24HTimestamp(c), status |-> status, type |-> "user-input"]

\* ------------------------------------------------------------ record store
InitialStudent(s) ==
    [_id |-> s,
     name |-> IF s = "s1" THEN "Aiko" ELSE "Ben",
     childId |-> IF s = "s1" THEN "101" ELSE "102",
     birthday |-> "b0",
     attendanceHistory |-> <<>>]

\* the second student's ledger at the first instant: empty, or holding the
\* login that student has just confirmed at the kiosk
FirstLedgers == {<<>>, <<createAttendanceRecord(0, "login")>>}

\* wixData.query("Students").eq("childId", id).find()
QueryByChildId(id) ==
    {s \in Students : Has(store[s], "childId") /\ store[s].childId = id}

\* the ledger has room for one more record
HasRoom(student) == Len(HistoryOf(student)) < MaxLedger

\* wixData.update("Students", item): the stored item is replaced as a whole
StoreUpdate(item) == [store EXCEPT ![item._id] = item]

\* ---------------------------------------------------------------- lightbox
LbIdle == [pc |-> "closed", childId |-> "", student |-> Null, nextAction |-> "",
           btnConfirm |-> FALSE, awaiting |-> "", result |-> NoRecord]

UpdIdle == [pc |-> "idle", studentId |-> "", status |-> "", student |-> Null,
            newRecord |-> NoRecord, updatedStudent |-> Null, wrote |-> FALSE,
            dispatched |-> {}, notified |-> "none", outcome |-> "none"]

\* the decision taken on the chronologically last record instead of the
\* record appended last
NextActionOf_Chronological(student) ==
    LET history == HistoryOf(student)
        latest == {i \in 1..Len(history) : \A k \in 1..Len(history) :
                      LocaleCompare(history[k].date, history[i].date) <= 0}
    IN  IF history # <<>> /\ \E i \in latest : history[i].status = "login"
        THEN "logout" ELSE "login"

\* the decision of the lightbox on the student it has read
NextActionOf(student) ==
    LET history == HistoryOf(student)
        last == IF Len(history) > 0 THEN history[Len(history)] ELSE NoRecord
    IN  IF last # NoRecord /\ last.status = "login" THEN "logout" ELSE "login"

\* ESystem btnAction: opens the lightbox with the keypad buffer as childId
LbOpen(id) ==
    /\ lb.pc = "closed"
    /\ lb' = [LbIdle EXCEPT !.pc = "query", !.childId = id, !.btnConfirm = TRUE]
    /\ UNCHANGED <<probe, clock, store, upd, job>>

\* the lightbox's query returns: student found, not found, or query error
LbQueryReturn ==
    /\ lb.pc = "query"
    /\ \E failed \in BOOLEAN :
         LET found == QueryByChildId(lb.childId) IN
         IF ~failed /\ found # {}
         THEN LET s == CHOOSE x \in found : TRUE IN
              lb' = [lb EXCEPT !.pc = "ready", !.student = NonLedger(store[s]),
                               !.nextAction = NextActionOf(store[s]),
                               !.btnConfirm = TRUE]
         ELSE lb' = [lb EXCEPT !.pc = "ready", !.btnConfirm = FALSE]
    /\ UNCHANGED <<probe, clock, store, upd, job>>

\* btnCancel.onClick while no confirmation is awaited: the lightbox closes
\* with { success: false }
LbCancel ==
    /\ lb.pc \in {"query", "ready"}
    /\ lb' = [LbIdle EXCEPT !.pc = "closing", !.result = [success |-> FALSE]]
    /\ UNCHANGED <<probe, clock, store, upd, job>>

\* btnCancel.onClick while the confirmation's update is awaited (the handler
\* disables the confirm button only): the lightbox closes with
\* { success: false } and the update runs on with nobody waiting for it
LbCancelInFlight ==
    /\ lb.pc = "updating"
    /\ lb' = [LbIdle EXCEPT !.pc = "closing", !.result = [success |-> FALSE]]
    /\ UNCHANGED <<probe, clock, store, upd, job>>

\* ESystem: the promise of openLightbox resolves, the keypad is reset
PageAfterLightbox ==
    /\ lb.pc = "closing"
    /\ lb' = LbIdle
    /\ UNCHANGED <<probe, clock, store, upd, job>>

\* ------------------------------------------------- guardian notification
Parents ==
    { [_id |-> "p1", assignedStudents |-> {"s1"}, memberReference |-> "m1"],
      [_id |-> "p2", assignedStudents |-> {"s1", "s2"}, memberReference |-> "m2"],
      [_id |-> "p3", assignedStudents |-> {"s2"}, memberReference |-> ""] }

ParentIds == {p._id : p \in Parents}

\* elevatedQuery("Parents").contains("assignedStudents", studentId)
ParentsOf(studentId) == {p \in Parents : studentId \in p.assignedStudents}

\* the first rejected trigger ends the call: no other guardian's trigger is
\* run and the rejection is thrown
sendAttendanceNotification_StopsAtFailure(studentId, status, isSystemFix, prepFailed, rejected) ==
    IF isSystemFix THEN [threw |-> FALSE, triggered |-> {}, failCount |-> 0]
    ELSE IF prepFailed THEN [threw |-> TRUE, triggered |-> {}, failCount |-> 0]
    ELSE LET triggered == {p._id : p \in {q \in ParentsOf(studentId) :
                                             q.memberReference # ""}}
         IN  IF triggered \cap rejected # {}
             THEN [threw |-> TRUE, triggered |-> triggered \cap rejected,
                   failCount |-> 0]
             ELSE [threw |-> FALSE, triggered |-> triggered, failCount |-> 0]

\* the guardians the automation is triggered for;
\* prepFailed: prepareNotificationData threw (one of its queries failed);
\* rejected: the guardians whose customTrigger.runTrigger rejects
sendAttendanceNotification(studentId, status, isSystemFix, prepFailed, rejected) ==
    IF isSystemFix THEN [threw |-> FALSE, triggered |-> {}, failCount |-> 0]
    ELSE IF prepFailed THEN [threw |-> TRUE, triggered |-> {}, failCount |-> 0]
    ELSE LET triggered == {p._id : p \in {q \in ParentsOf(studentId) :
                                             q.memberReference # ""}}
         IN  [threw |-> FALSE, triggered |-> triggered,
              failCount |-> Cardinality(triggered \cap rejected)]

\* ---------------------------------------------------- Record Update Service
\* an argument whose typeof is not 'string' (a number, null, an object) is
\* written as this token
NotAString == "#number"

\* typeof v === 'string'
TypeofString(v) == v # NotAString

\* the checks of the arguments left out: every call goes on to the query
UpdBegin_NoValidation(c, studentId, status) ==
    [UpdIdle EXCEPT !.pc = "query", !.studentId = studentId, !.status = status]

\* entry of updateAttendanceWithNotification(studentId, status): validation,
\* then the query for the student is issued
UpdBegin(c, studentId, status) ==
    IF studentId = "" \/ ~TypeofString(studentId)
       \/ status = "" \/ status \notin {"login", "logout"}
    THEN [UpdIdle EXCEPT !.pc = "returned", !.studentId = studentId,
                         !.status = status, !.outcome = "error"]
    ELSE [UpdIdle EXCEPT !.pc = "query", !.studentId = studentId,
                         !.status = status]

\* btnConfirm.onClick: disable the button, call the update function
LbConfirmClick(c) ==
    /\ lb.pc = "ready"
    /\ lb.btnConfirm
    /\ lb.student # Null /\ lb.nextAction # ""
    /\ upd[c].pc = "idle"
    /\ lb' = [lb EXCEPT !.pc = "updating", !.btnConfirm = FALSE, !.awaiting = c]
    /\ upd' = [upd EXCEPT ![c] = UpdBegin(c, lb.childId, lb.nextAction)]
    /\ UNCHANGED <<probe, clock, store, job>>

UpdThrow(c) == [upd EXCEPT ![c].pc = "returned", ![c].outcome = "error"]

\* an empty query result ends the call quietly instead of throwing
UpdQueryReturn_SilentNotFound(c) ==
    /\ upd[c].pc = "query"
    /\ \E failed \in BOOLEAN :
         LET found == QueryByChildId(upd[c].studentId) IN
         IF failed THEN upd' = UpdThrow(c)
         ELSE IF found = {}
         THEN upd' = [upd EXCEPT ![c].pc = "returned", ![c].outcome = "success"]
         ELSE LET student == store[CHOOSE x \in found : TRUE]
                  newRecord == createAttendanceRecord(clock, upd[c].status)
                  attendanceHistory == Append(HistoryOf(student), newRecord)
                  updatedStudent == Spread(student, attendanceHistory)
              IN  /\ HasRoom(student)
                  /\ upd' = [upd EXCEPT ![c].pc = "write",
                                        ![c].student = student,
                                        ![c].newRecord = newRecord,
                                        ![c].updatedStudent = updatedStudent]
    /\ UNCHANGED <<probe, clock, store, lb, job>>

\* the query returns; the new record is built and the update is issued
UpdQueryReturn(c) ==
    /\ upd[c].pc = "query"
    /\ \E failed \in BOOLEAN :
         LET found == QueryByChildId(upd[c].studentId) IN
         IF failed \/ found = {}
         THEN upd' = UpdThrow(c)
         ELSE LET student == store[CHOOSE x \in found : TRUE]
                  newRecord == createAttendanceRecord(clock, upd[c].status)
                  attendanceHistory == Append(HistoryOf(student), newRecord)
                  updatedStudent == Spread(student, attendanceHistory)
              IN  /\ HasRoom(student)
                  /\ IF ~validateTimestamp(newRecord.date)
                        \/ ~Truthy(updatedStudent, "name")
                        \/ ~Truthy(updatedStudent, "childId")
                     THEN upd' = UpdThrow(c)
                     ELSE upd' = [upd EXCEPT ![c].pc = "write",
                                             ![c].student = student,
                                             ![c].newRecord = newRecord,
                                             ![c].updatedStudent = updatedStudent]
    /\ UNCHANGED <<probe, clock, store, lb, job>>

\* the record is appended to the ledger stored at the time of the write
UpdWriteOk_AtomicAppend(c) ==
    /\ upd[c].pc = "write"
    /\ LET stored == store[upd[c].updatedStudent._id] IN
       store' = StoreUpdate(Spread(stored, Append(HistoryOf(stored),
                                                  upd[c].newRecord)))
    /\ upd' = [upd EXCEPT ![c].pc = "verify", ![c].wrote = TRUE,
                          ![c].student = NonLedger(upd[c].student),
                          ![c].updatedStudent = Null]
    /\ UNCHANGED <<probe, clock, lb, job>>

\* wixData.update("Students", updatedStudent) succeeds
UpdWriteOk(c) ==
    /\ upd[c].pc = "write"
    /\ store' = StoreUpdate(upd[c].updatedStudent)
    /\ upd' = [upd EXCEPT ![c].pc = "verify", ![c].wrote = TRUE,
                          ![c].student = NonLedger(upd[c].student),
                          ![c].updatedStudent = Null]
    /\ UNCHANGED <<probe, clock, lb, job>>

\* the rejected update is ignored and the call goes on
UpdWriteFail_Swallowed(c) ==
    /\ upd[c].pc = "write"
    /\ upd' = [upd EXCEPT ![c].pc = "verify",
                          ![c].student = NonLedger(upd[c].student),
                          ![c].updatedStudent = Null]
    /\ UNCHANGED <<probe, clock, store, lb, job>>

\* wixData.update rejects
UpdWriteFail(c) ==
    /\ upd[c].pc = "write"
    /\ upd' = UpdThrow(c)
    /\ UNCHANGED <<probe, clock, store, lb, job>>

\* the read-back of the record after the write
UpdVerify(c) ==
    /\ upd[c].pc = "verify"
    /\ \E failed \in BOOLEAN :
         LET updatedRecord == store[upd[c].student._id] IN
         IF failed \/ ~Has(updatedRecord, "attendanceHistory")
                   \/ Len(updatedRecord.attendanceHistory) = 0
         THEN upd' = UpdThrow(c)
         ELSE upd' = [upd EXCEPT ![c].pc = "notify"]
    /\ UNCHANGED <<probe, clock, store, lb, job>>

\* the notification's exception reaches the caller of the update
UpdNotify_Propagate(c) ==
    /\ upd[c].pc = "notify"
    /\ \E prepFailed \in BOOLEAN, rejected \in SUBSET ParentIds :
         LET r == sendAttendanceNotification(upd[c].student._id, upd[c].status,
                                             FALSE, prepFailed, rejected)
         IN  upd' = [upd EXCEPT ![c].pc = "returned",
                                ![c].dispatched = r.triggered,
                                ![c].notified = IF r.threw THEN "threw"
                                                ELSE IF r.failCount > 0 THEN "rejected"
                                                ELSE "ok",
                                ![c].outcome = IF r.threw THEN "error" ELSE "success"]
    /\ UNCHANGED <<probe, clock, store, lb, job>>

\* sendAttendanceNotification(student._id, status, false) inside its own
\* try/catch, then the return of the result
UpdNotify(c) ==
    /\ upd[c].pc = "notify"
    /\ \E prepFailed \in BOOLEAN, rejected \in SUBSET ParentIds :
         LET r == sendAttendanceNotification(upd[c].student._id, upd[c].status,
                                             FALSE, prepFailed, rejected)
         IN  upd' = [upd EXCEPT ![c].pc = "returned",
                                ![c].dispatched = r.triggered,
                                ![c].notified = IF r.threw THEN "threw"
                                                ELSE IF r.failCount > 0 THEN "rejected"
                                                ELSE "ok",
                                ![c].outcome = "success"]
    /\ UNCHANGED <<probe, clock, store, lb, job>>

\* the lightbox after the awaited update: close on success, re-enable the
\* button on error
LbAfterUpdate(c) ==
    /\ lb.pc = "updating" /\ lb.awaiting = c
    /\ upd[c].pc = "returned"
    /\ IF upd[c].outcome = "success"
       THEN lb' = [LbIdle EXCEPT !.pc = "closing", !.result =
                      [success |-> TRUE, action |-> lb.nextAction,
                       timestamp |-> create24HTimestamp(clock)]]
       ELSE lb' = [lb EXCEPT !.pc = "ready", !.btnConfirm = TRUE, !.awaiting = ""]
    /\ upd' = [upd EXCEPT ![c] = UpdIdle]
    /\ UNCHANGED <<probe, clock, store, job>>

\* the call's promise settles with no lightbox handler waiting for it
UpdReturn(c) ==
    /\ upd[c].pc = "returned"
    /\ lb.awaiting # c
    /\ upd' = [upd EXCEPT ![c] = UpdIdle]
    /\ UNCHANGED <<probe, clock, store, lb, job>>

\* ------------------------------------------------- guardian's history page
\* handleBirthdayChange: wixData.update("Students", {_id, birthday})
BirthdayChange(s, b) ==
    /\ store' = StoreUpdate([_id |-> s, birthday |-> b])
    /\ UNCHANGED <<probe, clock, lb, upd, job>>

Tick ==
    /\ clock < MaxClock
    /\ clock' = clock + 1
    /\ UNCHANGED <<probe, store, lb, upd, job>>

\* ------------------------------------------------------ Reconciliation Job
\* Array.prototype.sort with (a, b) => a.date.localeCompare(b.date): stable
RECURSIVE InsertByDate(_, _)
InsertByDate(sorted, r) ==
    IF sorted = <<>> THEN <<r>>
    ELSE IF LocaleCompare(sorted[Len(sorted)].date, r.date) <= 0
         THEN Append(sorted, r)
         ELSE Append(InsertByDate(SubSeq(sorted, 1, Len(sorted) - 1), r),
                     sorted[Len(sorted)])

\* the day's records left in ledger order
SortByDate_Unsorted(seq) == seq

RECURSIVE SortByDate(_)
SortByDate(seq) ==
    IF seq = <<>> THEN <<>>
    ELSE InsertByDate(SortByDate(SubSeq(seq, 1, Len(seq) - 1)), seq[Len(seq)])

\* the ledger taken whole, whatever the day of its records
FilterToday_AllDays(history, todayPrefix) == history

\* history.filter(record => record.date && record.date.startsWith(todayPrefix))
RECURSIVE FilterToday(_, _)
FilterToday(history, todayPrefix) ==
    IF history = <<>> THEN <<>>
    ELSE LET rest == FilterToday(SubSeq(history, 1, Len(history) - 1), todayPrefix)
             r == history[Len(history)]
         IN  IF StartsWith(r.date, todayPrefix) THEN Append(rest, r) ELSE rest

\* todayRecords.findLastIndex(record => record.status === 'login'), 0-based
RECURSIVE FindLastLoginIndex(_)
FindLastLoginIndex(records) ==
    IF records = <<>> THEN -1
    ELSE IF records[Len(records)].status = "login" THEN Len(records) - 1
         ELSE FindLastLoginIndex(SubSeq(records, 1, Len(records) - 1))

\* records.some(record => record.status === 'logout' && record.type === 'system-fix')
SomeSystemLogout(records) ==
    \E i \in 1..Len(records) :
        records[i].status = "logout" /\ records[i].type = "system-fix"

\* records.slice(from).some(record => record.status === 'logout'), from 0-based
SomeLogoutFrom(records, from) ==
    \E i \in (from + 1)..Len(records) : records[i].status = "logout"

\* the decision without the check for an existing system-fix logout
studentNeedsAutomaticLogout_NoFixCheck(student, todayPrefix) ==
    LET todayRecords == SortByDate(FilterToday(HistoryOf(student), todayPrefix)) IN
    IF Len(todayRecords) = 0
    THEN [needsLogout |-> FALSE, reason |-> "no_records_today"]
    ELSE [needsLogout |-> todayRecords[Len(todayRecords)].status = "login",
          reason |-> "last_record_is_login"]

\* part_002: the decision of the job on one student
studentNeedsAutomaticLogout(student, todayPrefix) ==
    LET history == HistoryOf(student) IN
    IF Len(history) = 0 THEN [needsLogout |-> FALSE, reason |-> "no_history"]
    ELSE
    LET todayRecords == SortByDate(FilterToday(history, todayPrefix)) IN
    IF Len(todayRecords) = 0
    THEN [needsLogout |-> FALSE, reason |-> "no_records_today"]
    ELSE
    LET lastRecord == todayRecords[Len(todayRecords)]
        isLastRecordLogin == lastRecord.status = "login"
        hasSystemLogout == SomeSystemLogout(todayRecords)
        lastLoginIndex == FindLastLoginIndex(todayRecords)
        hasLogoutAfterLastLogin == SomeLogoutFrom(todayRecords, lastLoginIndex + 1)
        needsLogout == isLastRecordLogin /\ ~hasSystemLogout
                       /\ ~hasLogoutAfterLastLogin
    IN  [needsLogout |-> needsLogout,
         reason |-> IF needsLogout THEN "last_record_is_login"
                    ELSE "already_logged_out_or_has_system_fix"]

\* the day's records taken in ledger order, without the sort by date
needsAutomaticLogout_Unsorted(attendanceHistory, todayPrefix) ==
    IF Len(attendanceHistory) = 0 THEN FALSE
    ELSE
    LET todayRecords == FilterToday(attendanceHistory, todayPrefix) IN
    IF Len(todayRecords) = 0 THEN FALSE
    ELSE
    LET lastRecord == todayRecords[Len(todayRecords)]
        isLastRecordLogin == lastRecord.status = "login"
        hasSystemLogout == SomeSystemLogout(todayRecords)
    IN  isLastRecordLogin /\ ~hasSystemLogout

\* attendanceSystemCheck.js: the decision of the job on one ledger
needsAutomaticLogout(attendanceHistory, todayPrefix) ==
    IF Len(attendanceHistory) = 0 THEN FALSE
    ELSE
    LET todayRecords == SortByDate(FilterToday(attendanceHistory, todayPrefix)) IN
    IF Len(todayRecords) = 0 THEN FALSE
    ELSE
    LET lastRecord == todayRecords[Len(todayRecords)]
        isLastRecordLogin == lastRecord.status = "login"
        hasSystemLogout == SomeSystemLogout(todayRecords)
    IN  isLastRecordLogin /\ ~hasSystemLogout

NumStudents == Len(StudentOrder)

\* the locals of a run; dispatched: the guardians the run has triggered the
\* notification automation for; written: the students whose stored item the
\* run has replaced
JobIdle == [pc |-> "idle", impl |-> "", todayPrefix |-> 0, items |-> <<>>,
            idx |-> 0, processedCount |-> 0, systemLogoutsAdded |-> 0,
            studentsAnalyzed |-> <<>>, errors |-> <<>>, pending |-> Null,
            dispatched |-> {}, written |-> {}, outcome |-> "none"]

\* the job's record marked as entered at the kiosk
newLogoutRecord_AsUserInput(c) ==
    [date |-> createJSTTimestamp(c, SystemLogoutHour), status |-> "logout",
     type |-> "user-input"]

\* { date: createJSTTimestamp(22, 0, 0), status: "logout", type: "system-fix" }
newLogoutRecord(c) ==
    [date |-> createJSTTimestamp(c, SystemLogoutHour), status |-> "logout",
     type |-> "system-fix"]

\* entry of checkMissingLogouts (either implementation): todayPrefix is
\* computed and the query over all students is issued
JobStart(j, impl) ==
    /\ job[j].pc = "idle"
    /\ job' = [job EXCEPT ![j] = [JobIdle EXCEPT !.pc = "query", !.impl = impl,
                                     !.todayPrefix = TodayPrefix(clock)]]
    /\ UNCHANGED <<probe, clock, store, lb, upd>>

\* elevatedQuery("Students").find() returns the items
JobEnumerate(j) ==
    /\ job[j].pc = "query"
    /\ \A s \in Students : HasRoom(store[s])
    /\ job' = [job EXCEPT ![j].pc = "loop", ![j].idx = 1,
                          ![j].items = [i \in 1..NumStudents |-> store[StudentOrder[i]]]]
    /\ UNCHANGED <<probe, clock, store, lb, upd>>

\* the query fails: the outer catch rethrows
JobEnumerateFail(j) ==
    /\ job[j].pc = "query"
    /\ job' = [job EXCEPT ![j].pc = "returned", ![j].outcome = "failed"]
    /\ UNCHANGED <<probe, clock, store, lb, upd>>

\* the loop is left after its first iteration
JobAdvance_StopsEarly(jr) ==
    [jr EXCEPT !.pc = "returned", !.idx = jr.idx + 1, !.pending = Null,
               !.items = <<>>, !.outcome = "report"]

\* the for loop moves to the next student, or the report is returned
JobAdvance(jr) ==
    IF jr.idx >= NumStudents
    THEN [jr EXCEPT !.pc = "returned", !.idx = jr.idx + 1, !.pending = Null,
                    !.items = <<>>, !.outcome = "report"]
    ELSE [jr EXCEPT !.pc = "loop", !.idx = jr.idx + 1, !.pending = Null,
                    !.items[jr.idx] = Null]

StudentLabel(student) ==
    IF Truthy(student, "name") THEN student.name ELSE student._id

\* part_002, one iteration of the loop up to its await
JobStudent(j) ==
    /\ job[j].pc = "loop" /\ job[j].impl = "part_002"
    /\ LET jr == [job[j] EXCEPT !.processedCount = job[j].processedCount + 1]
           student == jr.items[jr.idx]
           analysis == studentNeedsAutomaticLogout(student, jr.todayPrefix)
           updatedStudent == Spread(student, Append(HistoryOf(student),
                                                    newLogoutRecord(clock)))
       IN  IF analysis.needsLogout
           THEN IF ~Has(updatedStudent, "_id") \/ ~Truthy(updatedStudent, "name")
                   \/ ~Truthy(updatedStudent, "childId")
                THEN job' = [job EXCEPT ![j] = JobAdvance(
                         [jr EXCEPT !.errors = Append(jr.errors, StudentLabel(student))])]
                ELSE job' = [job EXCEPT ![j] =
                         [jr EXCEPT !.pc = "write", !.items[jr.idx] = Null,
                                    !.pending = updatedStudent]]
           ELSE job' = [job EXCEPT ![j] = JobAdvance(
                    [jr EXCEPT !.studentsAnalyzed = Append(jr.studentsAnalyzed,
                        [student |-> student._id, action |-> "no_action_needed",
                         reason |-> analysis.reason])])]
    /\ UNCHANGED <<probe, clock, store, lb, upd>>

\* the run notifies the guardians of the logout it has added, the way the
\* Record Update Service does after its write
JobWriteOk_Notifies(j) ==
    /\ job[j].pc = "write" /\ job[j].impl = "part_002"
    /\ store' = StoreUpdate(job[j].pending)
    /\ job' = [job EXCEPT ![j] = JobAdvance(
           [job[j] EXCEPT !.systemLogoutsAdded = job[j].systemLogoutsAdded + 1,
                          !.written = job[j].written \cup {job[j].pending._id},
                          !.dispatched = job[j].dispatched \cup
                              sendAttendanceNotification(job[j].pending._id, "logout",
                                  FALSE, FALSE, {}).triggered,
                          !.studentsAnalyzed = Append(job[j].studentsAnalyzed,
                              [student |-> job[j].pending._id,
                               action |-> "system_logout_added",
                               reason |-> ""])])]
    /\ UNCHANGED <<probe, clock, lb, upd>>

\* part_002, elevatedUpdate("Students", updatedStudent) succeeds; the run
\* calls no notification
JobWriteOk(j) ==
    /\ job[j].pc = "write" /\ job[j].impl = "part_002"
    /\ store' = StoreUpdate(job[j].pending)
    /\ job' = [job EXCEPT ![j] = JobAdvance(
           [job[j] EXCEPT !.systemLogoutsAdded = job[j].systemLogoutsAdded + 1,
                          !.written = job[j].written \cup {job[j].pending._id},
                          !.studentsAnalyzed = Append(job[j].studentsAnalyzed,
                              [student |-> job[j].pending._id,
                               action |-> "system_logout_added",
                               reason |-> ""])])]
    /\ UNCHANGED <<probe, clock, lb, upd>>

\* the rejected update aborts the run instead of being recorded
JobWriteFail_Rethrow(j) ==
    /\ job[j].pc = "write" /\ job[j].impl = "part_002"
    /\ job' = [job EXCEPT ![j].pc = "returned", ![j].pending = Null,
                          ![j].items = <<>>, ![j].outcome = "failed"]
    /\ UNCHANGED <<probe, clock, store, lb, upd>>

\* part_002, the update rejects: the per-student catch records the error
JobWriteFail(j) ==
    /\ job[j].pc = "write" /\ job[j].impl = "part_002"
    /\ job' = [job EXCEPT ![j] = JobAdvance(
           [job[j] EXCEPT !.errors = Append(job[j].errors,
                                            StudentLabel(job[j].pending))])]
    /\ UNCHANGED <<probe, clock, store, lb, upd>>

\* attendanceSystemCheck.js, one iteration of the loop up to its await
SysCheckStudent(j) ==
    /\ job[j].pc = "loop" /\ job[j].impl = "attendanceSystemCheck"
    /\ LET jr == [job[j] EXCEPT !.processedCount = job[j].processedCount + 1]
           student == jr.items[jr.idx]
           history == HistoryOf(student)
           todayRecords == FilterToday(history, jr.todayPrefix)
       IN  IF Len(todayRecords) = 0
           THEN job' = [job EXCEPT ![j] = JobAdvance(
                    [jr EXCEPT !.studentsAnalyzed = Append(jr.studentsAnalyzed,
                        [student |-> student._id, action |-> "skipped",
                         reason |-> "no_records_today"])])]
           ELSE IF needsAutomaticLogout(history, jr.todayPrefix)
           THEN job' = [job EXCEPT ![j] =
                    [jr EXCEPT !.pc = "write", !.items[jr.idx] = Null,
                               !.pending = Spread(student,
                                   Append(history, newLogoutRecord(clock)))]]
           ELSE job' = [job EXCEPT ![j] = JobAdvance(
                    [jr EXCEPT !.studentsAnalyzed = Append(jr.studentsAnalyzed,
                        [student |-> student._id, action |-> "no_action_needed",
                         reason |-> "already_logged_out_or_has_system_fix"])])]
    /\ UNCHANGED <<probe, clock, store, lb, upd>>

\* attendanceSystemCheck.js, the update succeeds
SysCheckWriteOk(j) ==
    /\ job[j].pc = "write" /\ job[j].impl = "attendanceSystemCheck"
    /\ store' = StoreUpdate(job[j].pending)
    /\ job' = [job EXCEPT ![j] = JobAdvance(
           [job[j] EXCEPT !.systemLogoutsAdded = job[j].systemLogoutsAdded + 1,
                          !.written = job[j].written \cup {job[j].pending._id},
                          !.studentsAnalyzed = Append(job[j].studentsAnalyzed,
                              [student |-> job[j].pending._id,
                               action |-> "system_logout_added",
                               reason |-> ""])])]
    /\ UNCHANGED <<probe, clock, lb, upd>>

\* attendanceSystemCheck.js, the update rejects: nothing catches it inside
\* the loop, the outer catch rethrows and the run fails
SysCheckWriteFail(j) ==
    /\ job[j].pc = "write" /\ job[j].impl = "attendanceSystemCheck"
    /\ job' = [job EXCEPT ![j].pc = "returned", ![j].pending = Null,
                          ![j].items = <<>>, ![j].outcome = "failed"]
    /\ UNCHANGED <<probe, clock, store, lb, upd>>

\* the caller (scheduler or manual trigger) has taken the result
JobAck(j) ==
    /\ job[j].pc = "returned"
    /\ job' = [job EXCEPT ![j] = JobIdle]
    /\ UNCHANGED <<probe, clock, store, lb, upd>>

NoProbe == [pc |-> "off"]

Init ==
    /\ probe = NoProbe
    /\ clock = 0
    /\ \E h \in FirstLedgers :
         store = [s \in Students |->
                    IF s = "s2" THEN [InitialStudent(s) EXCEPT !.attendanceHistory = h]
                    ELSE InitialStudent(s)]
    /\ lb = LbIdle
    /\ upd = [c \in Calls |-> UpdIdle]
    /\ job = [j \in Jobs |-> JobIdle]

\* the kiosk, the update service, the history page and the clock
SiteNext ==
    \/ Tick
    \/ \E id \in KeypadIds : LbOpen(id)
    \/ LbQueryReturn
    \/ LbCancel
    \/ PageAfterLightbox
    \/ \E c \in Calls : LbConfirmClick(c)
    \/ \E c \in Calls : UpdQueryReturn(c)
    \/ \E c \in Calls : UpdWriteOk(c)
    \/ \E c \in Calls : UpdWriteFail(c)
    \/ \E c \in Calls : UpdVerify(c)
    \/ \E c \in Calls : UpdNotify(c)
    \/ \E c \in Calls : LbAfterUpdate(c)
    \/ \E s \in Students, b \in Birthdays : BirthdayChange(s, b)

\* the site with part_002's checkMissingLogouts as the scheduled job
Next ==
    \/ SiteNext
    \/ \E j \in Jobs : JobStart(j, "part_002")
    \/ \E j \in Jobs : JobEnumerate(j)
    \/ \E j \in Jobs : JobEnumerateFail(j)
    \/ \E j \in Jobs : JobStudent(j)
    \/ \E j \in Jobs : JobWriteOk(j)
    \/ \E j \in Jobs : JobWriteFail(j)
    \/ \E j \in Jobs : JobAck(j)

\* the site with attendanceSystemCheck.js's checkMissingLogouts as the job
NextSysCheck ==
    \/ SiteNext
    \/ \E j \in Jobs : JobStart(j, "attendanceSystemCheck")
    \/ \E j \in Jobs : JobEnumerate(j)
    \/ \E j \in Jobs : JobEnumerateFail(j)
    \/ \E j \in Jobs : SysCheckStudent(j)
    \/ \E j \in Jobs : SysCheckWriteOk(j)
    \/ \E j \in Jobs : SysCheckWriteFail(j)
    \/ \E j \in Jobs : JobAck(j)

Spec == Init /\ [][Next]_vars

SpecSysCheck == Init /\ [][NextSysCheck]_vars

\* --------------------------------------- the decision functions on their own
ProbeDays == {0, 1}

ProbeTimes == {8, 17, 18, 23}

\* the records a ledger can hold: what the kiosk appends at any instant and
\* what the job appends on any day
ProbeRecords ==
    {[date |-> <<d, t>>, status |-> st, type |-> "user-input"] :
        d \in ProbeDays, t \in ProbeTimes, st \in {"login", "logout"}}
    \cup {[date |-> <<d, SystemLogoutHour>>, status |-> "logout",
           type |-> "system-fix"] : d \in ProbeDays}

ProbeLedgers == UNION {[1..n -> ProbeRecords] : n \in 0..MaxProbeLen}

InitDecision ==
    /\ clock = 0
    /\ store = [s \in Students |-> InitialStudent(s)]
    /\ lb = LbIdle
    /\ upd = [c \in Calls |-> UpdIdle]
    /\ job = [j \in Jobs |-> JobIdle]
    /\ \E ledger \in ProbeLedgers, day \in ProbeDays :
         probe = [pc |-> "input", ledger |-> ledger, day |-> day, runs |-> 0]

\* the lightbox's decision and both job decisions on the given ledger
Decide ==
    /\ probe.pc = "input"
    /\ LET student == [_id |-> "s1", name |-> "Aiko", childId |-> "101",
                       attendanceHistory |-> probe.ledger]
       IN  probe' = [pc |-> "decided", ledger |-> probe.ledger,
                     day |-> probe.day, runs |-> probe.runs,
                     nextAction |-> NextActionOf(student),
                     analysis |-> studentNeedsAutomaticLogout(student, probe.day),
                     needsLogout |-> needsAutomaticLogout(probe.ledger, probe.day)]
    /\ UNCHANGED <<clock, store, lb, upd, job>>

\* one pass of the job over the student on that day, nothing else writing:
\* the record is appended when the student is flagged
Reconcile ==
    /\ probe.pc = "decided"
    /\ probe.runs < 2
    /\ probe' = [pc |-> "input",
                 ledger |-> IF probe.analysis.needsLogout
                            THEN Append(probe.ledger,
                                        newLogoutRecord(probe.day * Len(ClockTimes)))
                            ELSE probe.ledger,
                 day |-> probe.day, runs |-> probe.runs + 1]
    /\ UNCHANGED <<clock, store, lb, upd, job>>

NextDecision == Decide \/ Reconcile

SpecDecision == InitDecision /\ [][NextDecision]_vars

\* ------------------------------ the Record Update Service called on its own
ServiceCalls == {"c1", "c2"}

\* the references a caller can pass: an assigned childId, an unassigned
\* one, the empty string, a value that is not a string
ServiceIds == {"101", "999", "", NotAString}

ServiceStatuses == {"login", "logout", "pause", ""}

InitService ==
    /\ probe = NoProbe
    /\ clock = 0
    /\ store = [s \in Students |-> InitialStudent(s)]
    /\ lb = LbIdle
    /\ upd = [c \in ServiceCalls |-> UpdIdle]
    /\ job = [j \in Jobs |-> JobIdle]

\* updateAttendanceWithNotification(studentId, status) is called
UpdInvoke(c, studentId, status) ==
    /\ upd[c].pc = "idle"
    /\ upd' = [upd EXCEPT ![c] = UpdBegin(c, studentId, status)]
    /\ UNCHANGED <<probe, clock, store, lb, job>>

NextService ==
    \/ \E c \in ServiceCalls, id \in ServiceIds, st \in ServiceStatuses :
           UpdInvoke(c, id, st)
    \/ \E c \in ServiceCalls : UpdQueryReturn(c)
    \/ \E c \in ServiceCalls : UpdWriteOk(c)
    \/ \E c \in ServiceCalls : UpdWriteFail(c)
    \/ \E c \in ServiceCalls : UpdVerify(c)
    \/ \E c \in ServiceCalls : UpdNotify(c)
    \/ \E c \in ServiceCalls : UpdReturn(c)

SpecService == InitService /\ [][NextService]_vars

\* ---------------------------------- the kiosk on its own, cancel at any time
NextKiosk ==
    \/ \E id \in KeypadIds : LbOpen(id)
    \/ LbQueryReturn
    \/ LbCancel
    \/ LbCancelInFlight
    \/ PageAfterLightbox
    \/ \E c \in ServiceCalls : LbConfirmClick(c)
    \/ \E c \in ServiceCalls : UpdQueryReturn(c)
    \/ \E c \in ServiceCalls : UpdWriteOk(c)
    \/ \E c \in ServiceCalls : UpdWriteFail(c)
    \/ \E c \in ServiceCalls : UpdVerify(c)
    \/ \E c \in ServiceCalls : UpdNotify(c)
    \/ \E c \in ServiceCalls : LbAfterUpdate(c)
    \/ \E c \in ServiceCalls : UpdReturn(c)

SpecKiosk == InitService /\ [][NextKiosk]_vars

\* ------------------------------------------- the timestamp codec on strings
\* A string is the sequence of its characters. An instant is new Date() as
\* whole seconds since the epoch (the codec drops the milliseconds).
DigitChars == <<"0", "1", "2", "3", "4", "5", "6", "7", "8", "9">>

\* String(n) for a natural number
RECURSIVE NumberToString(_)
NumberToString(n) ==
    IF n < 10 THEN <<DigitChars[n + 1]>>
    ELSE Append(NumberToString(n \div 10), DigitChars[(n % 10) + 1])

\* the number written without padding
PadStart2_NoPad(str) == str

\* str.padStart(2, '0')
PadStart2(str) == IF Len(str) < 2 THEN <<"0">> \o str ELSE str

\* const jstOffset = 9 * 60 * 60 * 1000, in seconds
JstOffset == 9 * 60 * 60

\* getUTCFullYear, getUTCMonth() + 1 and getUTCDate of the date that is the
\* given number of days after 1970-01-01 (proleptic Gregorian calendar)
UTCDateOf(days) ==
    LET z == days + 719468
        era == z \div 146097
        doe == z - era * 146097
        yoe == (doe - doe \div 1460 + doe \div 36524 - doe \div 146096) \div 365
        doy == doe - (365 * yoe + yoe \div 4 - yoe \div 100)
        mp == (5 * doy + 2) \div 153
        d == doy - (153 * mp + 2) \div 5 + 1
        m == IF mp < 10 THEN mp + 3 ELSE mp - 9
        y == yoe + era * 400 + (IF m <= 2 THEN 1 ELSE 0)
    IN  [year |-> y, month |-> m, day |-> d]

\* the components of new Date(utcTime + jstOffset) read with getUTC*()
JstComponents(t) ==
    LET jst == t + JstOffset
        sod == jst % (24 * 60 * 60)
        date == UTCDateOf(jst \div (24 * 60 * 60))
    IN  [year |-> date.year, month |-> date.month, day |-> date.day,
         hours |-> sod \div 3600, minutes |-> (sod % 3600) \div 60,
         seconds |-> sod % 60]

\* `${year}-${month}-${day} ${hours}:${minutes}:${seconds}` with every part
\* but the year padded to two characters
FormatTimestamp(year, month, day, hours, minutes, seconds) ==
    NumberToString(year) \o <<"-">> \o PadStart2(NumberToString(month))
        \o <<"-">> \o PadStart2(NumberToString(day)) \o <<" ">>
        \o PadStart2(NumberToString(hours)) \o <<":">>
        \o PadStart2(NumberToString(minutes)) \o <<":">>
        \o PadStart2(NumberToString(seconds))

\* ESystem.js create24HTimestamp() called at instant t
create24HTimestampString(t) ==
    LET j == JstComponents(t)
    IN  FormatTimestamp(j.year, j.month, j.day, j.hours, j.minutes, j.seconds)

\* part_002 createJSTTimestamp(hours, minutes, seconds) called at instant t
createJSTTimestampString(t, hours, minutes, seconds) ==
    LET j == JstComponents(t)
    IN  FormatTimestamp(j.year, j.month, j.day, hours, minutes, seconds)

\* /^\d{4}-\d{2}-\d{2} \d{2}:\d{2}:\d{2}$/.test(timestamp)
validateTimestampString(str) ==
    /\ Len(str) = 19
    /\ \A i \in 1..19 :
          IF i \in {5, 8} THEN str[i] = "-"
          ELSE IF i = 11 THEN str[i] = " "
          ELSE IF i \in {14, 17} THEN str[i] = ":"
          ELSE \E k \in 1..10 : str[i] = DigitChars[k]

\* the UTF-16 code unit of a character of a timestamp
CharCode(ch) ==
    IF ch = " " THEN 32
    ELSE IF ch = "-" THEN 45
    ELSE IF ch = ":" THEN 58
    ELSE 47 + (CHOOSE k \in 1..10 : DigitChars[k] = ch)

\* a < b for two strings: code unit by code unit, a proper prefix first
StringLess(a, b) ==
    \/ \E i \in 1..Len(a) :
          /\ i <= Len(b)
          /\ \A k \in 1..(i - 1) : a[k] = b[k]
          /\ CharCode(a[i]) < CharCode(b[i])
    \/ /\ Len(a) < Len(b)
       /\ \A k \in 1..Len(a) : a[k] = b[k]

\* the instants the codec is called at: either side of a JST midnight, of a
\* month's end, of a year's end, of the UTC date change, and at 22:00:00 JST
Instants ==
    {1704755109, 1704812399, 1704812400, 1709211600, 1727701199, 1727740800,
     1735657199, 1735657200, 1735689599, 1740791410}

\* the calls of the codec in the program: create24HTimestamp() and
\* createJSTTimestamp(22, 0, 0)
CodecCalls == {"create24HTimestamp", "createJSTTimestamp"}

CodecOutput(call, t) ==
    IF call = "create24HTimestamp" THEN create24HTimestampString(t)
    ELSE createJSTTimestampString(t, SystemLogoutHour, 0, 0)

InitCodec ==
    /\ clock = 0
    /\ store = [s \in Students |-> InitialStudent(s)]
    /\ lb = LbIdle
    /\ upd = [c \in Calls |-> UpdIdle]
    /\ job = [j \in Jobs |-> JobIdle]
    /\ \E t1 \in Instants, t2 \in Instants, f1 \in CodecCalls, f2 \in CodecCalls :
         probe = [pc |-> "input", first |-> [call |-> f1, at |-> t1],
                  second |-> [call |-> f2, at |-> t2]]

\* the two calls are made
Encode ==
    /\ probe.pc = "input"
    /\ probe' = [pc |-> "encoded", first |-> probe.first, second |-> probe.second,
                 a |-> CodecOutput(probe.first.call, probe.first.at),
                 b |-> CodecOutput(probe.second.call, probe.second.at)]
    /\ UNCHANGED <<clock, store, lb, upd, job>>

NextCodec == Encode

SpecCodec == InitCodec /\ [][NextCodec]_vars

\* ------------------------------------------ the guardian page's formatter
\* the placeholder of a missing login or logout: the em dash (U+2014) of
\* the source, written here with two hyphens
Placeholder == <<"-", "-">>

\* formatTime(new Date(record.date)): the HH:MM of the record's timestamp
\* (the minutes of the timestamps used here are 00)
formatTime(date) == PadStart2(NumberToString(date[2])) \o <<":", "0", "0">>

\* the day key of a record: the date part of its timestamp
DayKeyOf(record) == record.date[1]

\* the search looks at the records before the login instead of after it
FindLogoutAfter_Before(dayRecords, i) ==
    LET later == {k \in 1..Len(dayRecords) :
                     k < i /\ dayRecords[k].status = "logout"}
    IN  IF later = {} THEN 0
        ELSE CHOOSE k \in later : \A m \in later : k <= m

\* dayRecords.find((record, index) => index > i && record.status === 'logout')
\* as a 1-based position, 0 when there is none
FindLogoutAfter(dayRecords, i) ==
    LET later == {k \in 1..Len(dayRecords) :
                     k > i /\ dayRecords[k].status = "logout"}
    IN  IF later = {} THEN 0
        ELSE CHOOSE k \in later : \A m \in later : k <= m

\* the while loop over one day's records, from position i on
RECURSIVE PairRows(_, _, _)
PairRows(dayRecords, i, dayKey) ==
    IF i > Len(dayRecords) THEN <<>>
    ELSE
    LET currentRecord == dayRecords[i] IN
    IF currentRecord.status = "login"
    THEN LET found == FindLogoutAfter(dayRecords, i) IN
         IF found # 0
         THEN <<[date |-> dayKey, login |-> formatTime(currentRecord.date),
                 logout |-> formatTime(dayRecords[found].date),
                 dayKey |-> dayKey, originalDate |-> currentRecord.date]>>
              \o PairRows(dayRecords, found + 1, dayKey)
         ELSE <<[date |-> dayKey, login |-> formatTime(currentRecord.date),
                 logout |-> Placeholder,
                 dayKey |-> dayKey, originalDate |-> currentRecord.date]>>
              \o PairRows(dayRecords, i + 1, dayKey)
    ELSE <<[date |-> dayKey, login |-> Placeholder,
            logout |-> formatTime(currentRecord.date),
            dayKey |-> dayKey, originalDate |-> currentRecord.date]>>
         \o PairRows(dayRecords, i + 1, dayKey)

\* Object.keys(dayGroups).sort(): the day keys in ascending order
RECURSIVE SortedKeys(_)
SortedKeys(keys) ==
    IF keys = {} THEN <<>>
    ELSE LET least == CHOOSE k \in keys : \A m \in keys : k <= m
         IN  <<least>> \o SortedKeys(keys \ {least})

\* the rows of the days from position n of the sorted keys on
RECURSIVE RowsOfDays(_, _, _)
RowsOfDays(sortedData, keys, n) ==
    IF n > Len(keys) THEN <<>>
    ELSE PairRows(SelectSeq(sortedData, LAMBDA r : DayKeyOf(r) = keys[n]), 1, keys[n])
         \o RowsOfDays(sortedData, keys, n + 1)

\* processAttendanceData(rawData)
processAttendanceData(rawData) ==
    IF Len(rawData) = 0 THEN <<>>
    ELSE LET sortedData == SortByDate(rawData)
             keys == SortedKeys({DayKeyOf(rawData[k]) : k \in 1..Len(rawData)})
         IN  RowsOfDays(sortedData, keys, 1)

\* ---------------------------------------------- the backend's formatter
\* the marker shown for a logout added by the job
Marker == <<"#">>

\* dateObj.getTime(): the instant of a timestamp as one number
GetTime(date) == date[1] * 24 + date[2]

\* array.join('\n')
RECURSIVE JoinLines(_)
JoinLines(items) ==
    IF items = <<>> THEN <<>>
    ELSE IF Len(items) = 1 THEN items[1]
    ELSE items[1] \o <<"\n">> \o JoinLines(Tail(items))

\* the keys of grouped, in the order in which they were created: the order in
\* which the days first appear in the ledger
RECURSIVE GroupedKeys(_)
GroupedKeys(attendanceHistory) ==
    IF attendanceHistory = <<>> THEN <<>>
    ELSE LET before == GroupedKeys(SubSeq(attendanceHistory, 1,
                                           Len(attendanceHistory) - 1))
             dateKey == DayKeyOf(attendanceHistory[Len(attendanceHistory)])
         IN  IF \E k \in 1..Len(before) : before[k] = dateKey
             THEN before ELSE Append(before, dateKey)

\* what one record pushes to the login or the logout array of its day
TimeShown(record) ==
    IF /\ record.status = "logout"
       /\ \/ record.type = "system-fix"
          \/ (Has(record, "systemfix") /\ record.systemfix = TRUE)
    THEN Marker
    ELSE formatTime(record.date)

\* the entries pushed to the array of the given status for the day, in
\* ledger order
RECURSIVE TimesOf(_, _, _)
TimesOf(attendanceHistory, dateKey, status) ==
    IF attendanceHistory = <<>> THEN <<>>
    ELSE LET record == attendanceHistory[1]
             rest == TimesOf(Tail(attendanceHistory), dateKey, status)
         IN  IF DayKeyOf(record) = dateKey /\ record.status = status
             THEN <<TimeShown(record)>> \o rest
             ELSE rest

\* the time of the first record of the day in ledger order
SortDateOf(attendanceHistory, dateKey) ==
    LET first == CHOOSE i \in 1..Len(attendanceHistory) :
                    /\ DayKeyOf(attendanceHistory[i]) = dateKey
                    /\ \A k \in 1..(i - 1) : DayKeyOf(attendanceHistory[k]) # dateKey
    IN  GetTime(attendanceHistory[first].date)

\* rows.sort((a, b) => b.sortDate - a.sortDate): stable, descending
RECURSIVE SortNewestFirst(_)
SortNewestFirst(rows) ==
    IF rows = <<>> THEN <<>>
    ELSE LET sorted == SortNewestFirst(SubSeq(rows, 1, Len(rows) - 1))
             r == rows[Len(rows)]
             ahead == {k \in 1..Len(sorted) : sorted[k].sortDate >= r.sortDate}
             n == Cardinality(ahead)
         IN  SubSeq(sorted, 1, n) \o <<r>> \o SubSeq(sorted, n + 1, Len(sorted))

\* formatAttendanceData(attendanceHistory, studentName, language); the date
\* text of a row is the day it stands for
formatAttendanceData(attendanceHistory, studentName) ==
    LET keys == GroupedKeys(attendanceHistory)
        rows == [k \in 1..Len(keys) |->
                    [studentName |-> studentName,
                     date |-> keys[k],
                     login |-> JoinLines(TimesOf(attendanceHistory, keys[k], "login")),
                     logout |-> JoinLines(TimesOf(attendanceHistory, keys[k], "logout")),
                     sortDate |-> SortDateOf(attendanceHistory, keys[k])]]
        sorted == SortNewestFirst(rows)
    IN  [k \in 1..Len(sorted) |->
            [studentName |-> sorted[k].studentName, date |-> sorted[k].date,
             login |-> sorted[k].login, logout |-> sorted[k].logout]]

InitHistory ==
    /\ clock = 0
    /\ store = [s \in Students |-> InitialStudent(s)]
    /\ lb = LbIdle
    /\ upd = [c \in Calls |-> UpdIdle]
    /\ job = [j \in Jobs |-> JobIdle]
    /\ \E ledger \in ProbeLedgers : probe = [pc |-> "input", ledger |-> ledger]

\* both formatters are applied to the ledger: rows is the page's table,
\* attendanceData the backend's
FormatHistory ==
    /\ probe.pc = "input"
    /\ probe' = [pc |-> "formatted", ledger |-> probe.ledger,
                 rows |-> processAttendanceData(probe.ledger),
                 attendanceData |-> formatAttendanceData(probe.ledger, "Aiko")]
    /\ UNCHANGED <<clock, store, lb, upd, job>>

NextHistory == FormatHistory

SpecHistory == InitHistory /\ [][NextHistory]_vars

\* ------------------------------------------------- the kiosk page's keypad
\* the most characters handleInput lets the input buffer hold
InputLimit == 8

\* the number buttons pressed here
KeypadDigits == {0, 7}

\* the page as loaded: inputId = "", isReady = false, no lightbox opened;
\* lightbox is the context handed to openLightbox while the lightbox is open
InitKeypad ==
    /\ clock = 0
    /\ store = [s \in Students |-> InitialStudent(s)]
    /\ lb = LbIdle
    /\ upd = [c \in Calls |-> UpdIdle]
    /\ job = [j \in Jobs |-> JobIdle]
    /\ probe = [pc |-> "keypad", isReady |-> FALSE, inputId |-> <<>>,
                lightbox |-> NoRecord]

\* the end of $w.onReady: the buttons are enabled and isReady is set
PageReady ==
    /\ probe.pc = "keypad"
    /\ ~probe.isReady
    /\ probe' = [probe EXCEPT !.isReady = TRUE]
    /\ UNCHANGED <<clock, store, lb, upd, job>>

\* every digit is appended, whatever the length of the buffer
handleInput_NoLimit(num) ==
    /\ probe.pc = "keypad"
    /\ probe.isReady
    /\ probe' = [probe EXCEPT !.inputId = probe.inputId \o NumberToString(num)]
    /\ UNCHANGED <<clock, store, lb, upd, job>>

\* handleInput(num): a number button is clicked or touched
handleInput(num) ==
    /\ probe.pc = "keypad"
    /\ probe.isReady
    /\ Len(probe.inputId) < InputLimit
    /\ probe' = [probe EXCEPT !.inputId = probe.inputId \o NumberToString(num)]
    /\ UNCHANGED <<clock, store, lb, upd, job>>

\* btnBackspace: inputId.slice(0, -1)
BackspaceClick ==
    /\ probe.pc = "keypad"
    /\ probe.isReady
    /\ probe' = [probe EXCEPT !.inputId =
                    SubSeq(probe.inputId, 1, Len(probe.inputId) - 1)]
    /\ UNCHANGED <<clock, store, lb, upd, job>>

\* btnClear
ClearClick ==
    /\ probe.pc = "keypad"
    /\ probe.isReady
    /\ probe' = [probe EXCEPT !.inputId = <<>>]
    /\ UNCHANGED <<clock, store, lb, upd, job>>

\* btnAction: the confirmation lightbox is opened with the buffer as childId
\* (one lightbox is open at a time)
ActionClick ==
    /\ probe.pc = "keypad"
    /\ probe.isReady /\ Len(probe.inputId) # 0
    /\ probe.lightbox = NoRecord
    /\ probe' = [probe EXCEPT !.lightbox = [childId |-> probe.inputId]]
    /\ UNCHANGED <<clock, store, lb, upd, job>>

\* the promise of openLightbox settles: the buffer is reset
LightboxSettled ==
    /\ probe.pc = "keypad"
    /\ probe.lightbox # NoRecord
    /\ probe' = [probe EXCEPT !.lightbox = NoRecord, !.inputId = <<>>]
    /\ UNCHANGED <<clock, store, lb, upd, job>>

NextKeypad ==
    \/ PageReady
    \/ \E num \in KeypadDigits : handleInput(num)
    \/ BackspaceClick
    \/ ClearClick
    \/ ActionClick
    \/ LightboxSettled

SpecKeypad == InitKeypad /\ [][NextKeypad]_vars

\* ------------------------------------- the guardian notification on its own
\* a call of sendAttendanceNotification with its arguments and with what the
\* environment does to it
InitNotify ==
    /\ clock = 0
    /\ store = [s \in Students |-> InitialStudent(s)]
    /\ lb = LbIdle
    /\ upd = [c \in Calls |-> UpdIdle]
    /\ job = [j \in Jobs |-> JobIdle]
    /\ \E studentId \in Students, status \in {"login", "logout"},
          isSystemFix \in BOOLEAN, prepFailed \in BOOLEAN,
          rejected \in SUBSET ParentIds :
         probe = [pc |-> "call", studentId |-> studentId, status |-> status,
                  isSystemFix |-> isSystemFix, prepFailed |-> prepFailed,
                  rejected |-> rejected]

\* the call runs to its end
Notify ==
    /\ probe.pc = "call"
    /\ probe' = [pc |-> "settled", studentId |-> probe.studentId,
                 status |-> probe.status, isSystemFix |-> probe.isSystemFix,
                 prepFailed |-> probe.prepFailed, rejected |-> probe.rejected,
                 result |-> sendAttendanceNotification(probe.studentId,
                     probe.status, probe.isSystemFix, probe.prepFailed,
                     probe.rejected)]
    /\ UNCHANGED <<clock, store, lb, upd, job>>

NextNotify == Notify

SpecNotify == InitNotify /\ [][NextNotify]_vars

\* ------------------------------------------ the guardian's access to a ledger
\* the site members that can call the web method: the member of guardian p1,
\* the member of guardian p2 and a member that is no guardian
Members == {"m1", "m2", "m3"}

\* currentMember.getMember() resolves to nothing
NoMember == ""

\* the student ids a caller can pass: the two students, none, an unknown one
RequestedIds == {"s1", "s2", "", "s9"}

\* the ledgers the students hold when the method is called
AccessLedgers ==
    {<<>>,
     <<createAttendanceRecord(0, "login")>>,
     <<createAttendanceRecord(0, "login"), newLogoutRecord(0)>>}

\* throw new Error(`Failed to get attendance history: ${error.message}`)
Failure(message) == [threw |-> TRUE, message |-> message]

\* getCurrentParentData(): the first Parents item whose memberReference is
\* the calling member, null when there is none or the query fails
getCurrentParentData(member, parentsQueryFails) ==
    IF member = NoMember THEN Null
    ELSE IF parentsQueryFails THEN Null
    ELSE LET items == {p \in Parents : p.memberReference = member}
         IN  IF items = {} THEN Null ELSE CHOOSE p \in items : TRUE

\* the method without the check of the parent's assigned students
getStudentAttendanceHistory_NoAssignmentCheck(member, studentId, parentsQueryFails, studentsQueryFails) ==
    IF studentId = "" THEN Failure("Student ID is required")
    ELSE
    LET parentData == getCurrentParentData(member, parentsQueryFails) IN
    IF parentData = Null THEN Failure("No parent data found - access denied")
    ELSE IF studentsQueryFails THEN Failure("query failed")
    ELSE IF studentId \notin Students THEN Failure("Student not found")
    ELSE LET student == store[studentId]
         IN  [threw |-> FALSE, studentName |-> student.name,
              attendanceData |-> formatAttendanceData(HistoryOf(student),
                                                      student.name)]

\* getStudentAttendanceHistory(studentId, language) called by the member
getStudentAttendanceHistory(member, studentId, parentsQueryFails, studentsQueryFails) ==
    IF studentId = "" THEN Failure("Student ID is required")
    ELSE
    LET parentData == getCurrentParentData(member, parentsQueryFails) IN
    IF parentData = Null THEN Failure("No parent data found - access denied")
    ELSE IF studentId \notin parentData.assignedStudents
    THEN Failure("Unauthorized: Student not assigned to this parent")
    ELSE IF studentsQueryFails THEN Failure("query failed")
    ELSE IF studentId \notin Students THEN Failure("Student not found")
    ELSE LET student == store[studentId]
         IN  [threw |-> FALSE, studentName |-> student.name,
              attendanceData |-> formatAttendanceData(HistoryOf(student),
                                                      student.name)]

InitAccess ==
    /\ clock = 0
    /\ \E h1, h2 \in AccessLedgers :
         store = [s \in Students |->
                    [InitialStudent(s) EXCEPT !.attendanceHistory =
                        IF s = "s1" THEN h1 ELSE h2]]
    /\ lb = LbIdle
    /\ upd = [c \in Calls |-> UpdIdle]
    /\ job = [j \in Jobs |-> JobIdle]
    /\ \E member \in Members \cup {NoMember}, studentId \in RequestedIds :
         probe = [pc |-> "call", member |-> member, studentId |-> studentId]

\* the call is answered
AnswerHistory ==
    /\ probe.pc = "call"
    /\ \E parentsQueryFails, studentsQueryFails \in BOOLEAN :
         probe' = [pc |-> "answered", member |-> probe.member,
                   studentId |-> probe.studentId,
                   result |-> getStudentAttendanceHistory(probe.member,
                       probe.studentId, parentsQueryFails, studentsQueryFails)]
    /\ UNCHANGED <<clock, store, lb, upd, job>>

NextAccess == AnswerHistory

SpecAccess == InitAccess /\ [][NextAccess]_vars

\* ----------------------------------------------- one run of the job alone
\* the ledgers the students hold when the runs begin: empty, a login of the
\* first day, or that login with the logout a run has added
RunLedgers ==
    {<<>>,
     <<createAttendanceRecord(0, "login")>>,
     <<createAttendanceRecord(0, "login"), newLogoutRecord(0)>>}

InitRun ==
    /\ probe = NoProbe
    /\ clock = 0
    /\ \E h1, h2 \in RunLedgers :
         store = [s \in Students |->
                    [InitialStudent(s) EXCEPT !.attendanceHistory =
                        IF s = "s1" THEN h1 ELSE h2]]
    /\ lb = LbIdle
    /\ upd = [c \in Calls |-> UpdIdle]
    /\ job = [j \in Jobs |-> JobIdle]

\* the steps of run j when nothing is known of its update calls: they may
\* never return
RunStep_UpdateMayHang(j) ==
    \/ JobEnumerate(j)
    \/ JobEnumerateFail(j)
    \/ JobStudent(j)

\* the next step of run j: a store call of the run returns or fails, or the
\* loop goes on to the next student
RunStep(j) ==
    \/ JobEnumerate(j)
    \/ JobEnumerateFail(j)
    \/ JobStudent(j)
    \/ JobWriteOk(j)
    \/ JobWriteFail(j)

\* part_002's checkMissingLogouts run again and again, nothing else writing
NextRun ==
    \/ Tick
    \/ \E j \in Jobs : JobStart(j, "part_002")
    \/ \E j \in Jobs : JobEnumerate(j)
    \/ \E j \in Jobs : JobEnumerateFail(j)
    \/ \E j \in Jobs : JobStudent(j)
    \/ \E j \in Jobs : JobWriteOk(j)
    \/ \E j \in Jobs : JobWriteFail(j)
    \/ \E j \in Jobs : JobAck(j)

\* every store call of a run returns or fails and the code after it runs
SpecRun ==
    InitRun /\ [][NextRun]_vars /\ \A j \in Jobs : WF_vars(RunStep(j))

\* -------------------------------------------- runs that overlap in time
\* the scheduled invocation and a manual one (manualCheckMissingLogouts
\* awaits the same checkMissingLogouts)
Runs == {"j1", "j2"}

InitOverlap ==
    /\ probe = NoProbe
    /\ clock = 0
    /\ \E h \in FirstLedgers :
         store = [s \in Students |->
                    IF s = "s2" THEN [InitialStudent(s) EXCEPT !.attendanceHistory = h]
                    ELSE InitialStudent(s)]
    /\ lb = LbIdle
    /\ upd = [c \in Calls |-> UpdIdle]
    /\ job = [j \in Runs |-> JobIdle]

\* one call of the update service for the second student, the scheduled job
\* (which runs again after it has returned), one manual run and the clock,
\* in any interleaving
NextOverlap ==
    \/ Tick
    \/ \E c \in Calls, st \in {"login", "logout"} : UpdInvoke(c, "102", st)
    \/ \E c \in Calls : UpdQueryReturn(c)
    \/ \E c \in Calls : UpdWriteOk(c)
    \/ \E c \in Calls : UpdWriteFail(c)
    \/ \E c \in Calls : UpdVerify(c)
    \/ \E c \in Calls : UpdNotify(c)
    \/ \E j \in Runs : JobStart(j, "part_002")
    \/ \E j \in Runs : JobEnumerate(j)
    \/ \E j \in Runs : JobEnumerateFail(j)
    \/ \E j \in Runs : JobStudent(j)
    \/ \E j \in Runs : JobWriteOk(j)
    \/ \E j \in Runs : JobWriteFail(j)
    \/ JobAck("j1")

SpecOverlap == InitOverlap /\ [][NextOverlap]_vars

\* ------------------------------------- operations that follow one another
\* no lightbox is open, no call of the update service and no run is in flight
Quiet ==
    /\ lb.pc = "closed"
    /\ \A c \in Calls : upd[c].pc = "idle"
    /\ \A j \in Jobs : job[j].pc = "idle"

\* the site when every kiosk confirmation (from the opening of the lightbox
\* to its closing), every birthday change and every run of the job begins
\* only after the one before it has ended; the clock only moves forward
NextSequential ==
    \/ Tick
    \/ \E id \in KeypadIds : Quiet /\ LbOpen(id)
    \/ LbQueryReturn
    \/ LbCancel
    \/ PageAfterLightbox
    \/ \E c \in Calls : LbConfirmClick(c)
    \/ \E c \in Calls : UpdQueryReturn(c)
    \/ \E c \in Calls : UpdWriteOk(c)
    \/ \E c \in Calls : UpdWriteFail(c)
    \/ \E c \in Calls : UpdVerify(c)
    \/ \E c \in Calls : UpdNotify(c)
    \/ \E c \in Calls : LbAfterUpdate(c)
    \/ \E s \in Students, b \in Birthdays : Quiet /\ BirthdayChange(s, b)
    \/ \E j \in Jobs : Quiet /\ JobStart(j, "part_002")
    \/ \E j \in Jobs : JobEnumerate(j)
    \/ \E j \in Jobs : JobEnumerateFail(j)
    \/ \E j \in Jobs : JobStudent(j)
    \/ \E j \in Jobs : JobWriteOk(j)
    \/ \E j \in Jobs : JobWriteFail(j)
    \/ \E j \in Jobs : JobAck(j)

SpecSequential == Init /\ [][NextSequential]_vars

\* ------------------------------------------------------------------ claims
Last(seq) == seq[Len(seq)]

SystemFixCount(history, day) ==
    Cardinality({i \in 1..Len(history) :
        /\ history[i].status = "logout"
        /\ history[i].type = "system-fix"
        /\ StartsWith(history[i].date, day)})

AllDays == 0..JSTDay(MaxClock)

\* C1, first half: no stored ledger ever holds two system-fix logout records
\* of the same day
C1_NoDuplicateSystemFix ==
    \A s \in Students, d \in AllDays : SystemFixCount(HistoryOf(store[s]), d) <= 1

\* C1, second half: once a run has written a student's system-fix logout for
\* the day it checks, the decision on the stored ledger for that day is "no
\* logout needed", so a further run on it changes nothing
C1_SecondRunNoChange ==
    \A j \in Jobs :
        (JobWriteOk(j) /\ JSTDay(clock) = job[j].todayPrefix)
            => ~studentNeedsAutomaticLogout(store'[job[j].pending._id],
                                            job[j].todayPrefix).needsLogout

\* C1: running the Reconciliation Job twice for the same JST day never leaves
\* two system-fix logout records for the same student and day, and the second
\* run changes no ledger the first one has settled
C1_ReconciliationIdempotent ==
    []C1_NoDuplicateSystemFix /\ [][C1_SecondRunNoChange]_vars

\* a later run has looked at a student whose stored ledger holds the
\* system-fix logout of the run's day, and has left it alone
C1_Witness ==
    \E j \in Jobs :
        \E i \in 1..Len(job[j].studentsAnalyzed) :
            LET a == job[j].studentsAnalyzed[i] IN
            /\ a.action = "no_action_needed"
            /\ a.reason = "already_logged_out_or_has_system_fix"
            /\ SystemFixCount(HistoryOf(store[a.student]), job[j].todayPrefix) = 1
            /\ Last(HistoryOf(store[a.student])).type = "system-fix"

\* C2: an update by the Record Update Service or by the Reconciliation Job
\* leaves every stored field other than attendanceHistory as it was stored
\* just before the update
C2_NonLedgerFieldsPreserved ==
    [][/\ \A c \in Calls : UpdWriteOk(c) =>
             NonLedger(store'[upd[c].updatedStudent._id])
                 = NonLedger(store[upd[c].updatedStudent._id])
       /\ \A j \in Jobs : JobWriteOk(j) =>
             NonLedger(store'[job[j].pending._id])
                 = NonLedger(store[job[j].pending._id])]_vars

\* C3: after an update by the Record Update Service or by the Reconciliation
\* Job the stored ledger is the ledger stored just before the update plus
\* exactly one record at the end
C3_LedgerGrowsByOne ==
    [][/\ \A c \in Calls : UpdWriteOk(c) =>
             HistoryOf(store'[upd[c].updatedStudent._id])
                 = Append(HistoryOf(store[upd[c].updatedStudent._id]),
                          upd[c].newRecord)
       /\ \A j \in Jobs : JobWriteOk(j) =>
             /\ Len(HistoryOf(store'[job[j].pending._id]))
                    = Len(HistoryOf(store[job[j].pending._id])) + 1
             /\ SubSeq(HistoryOf(store'[job[j].pending._id]), 1,
                       Len(HistoryOf(store[job[j].pending._id])))
                    = HistoryOf(store[job[j].pending._id])]_vars

\* C4: the next action is logout exactly when the ledger is not empty and its
\* last record in insertion order is a login; otherwise it is login
C4_ToggleOnLastRecord ==
    probe.pc = "decided" =>
        /\ probe.nextAction \in {"login", "logout"}
        /\ probe.nextAction = "logout"
              <=> (Len(probe.ledger) > 0 /\ Last(probe.ledger).status = "login")

\* the ledger ends with a login that is chronologically before an earlier
\* logout, and the next action is logout
C4_Witness ==
    /\ probe.pc = "decided"
    /\ Len(probe.ledger) = 3
    /\ probe.ledger[2].status = "logout"
    /\ Last(probe.ledger).status = "login"
    /\ LocaleCompare(Last(probe.ledger).date, probe.ledger[2].date) < 0
    /\ probe.nextAction = "logout"

\* C5: the record the job appends for a flagged student is
\* {<the run's JST date> 22:00:00, logout, system-fix}
C5_AppendsLogoutOfRunDate ==
    [][\A j \in Jobs : JobWriteOk(j) =>
          Last(HistoryOf(store'[job[j].pending._id]))
              = [date |-> <<job[j].todayPrefix, SystemLogoutHour>>,
                 status |-> "logout", type |-> "system-fix"]]_vars

\* a is strictly earlier than b as canonical timestamp strings
Earlier(a, b) == a[1] < b[1] \/ (a[1] = b[1] /\ a[2] < b[2])

\* position i comes after position k when the day's records are put in
\* ascending timestamp order (records of equal timestamp keep ledger order)
SortsAfter(ledger, i, k) ==
    \/ Earlier(ledger[k].date, ledger[i].date)
    \/ (ledger[k].date = ledger[i].date /\ k < i)

\* the decision as the specification words it, on the positions of the
\* ledger whose record is dated the given day
C6_Expected(ledger, day) ==
    LET today == {i \in 1..Len(ledger) : ledger[i].date[1] = day}
        logins == {i \in today : ledger[i].status = "login"}
        isLastLogin ==
            \E i \in logins : \A k \in today \ {i} : SortsAfter(ledger, i, k)
        hasSystemLogout ==
            \E i \in today : ledger[i].status = "logout"
                             /\ ledger[i].type = "system-fix"
        hasLogoutAfterLastLogin ==
            \E i \in today :
                /\ ledger[i].status = "logout"
                /\ \A k \in logins : SortsAfter(ledger, i, k)
    IN  isLastLogin /\ ~hasSystemLogout /\ ~hasLogoutAfterLastLogin

\* C6: needsLogout is true exactly when, among the day's records in ascending
\* timestamp order, the last is a login, none is a system-fix logout and no
\* logout comes after the last login
C6_DecisionAsSpecified ==
    probe.pc = "decided" =>
        probe.analysis.needsLogout = C6_Expected(probe.ledger, probe.day)

\* login, logout, login on the day in question, the last login entered first
\* in the ledger: flagged
C6_Witness ==
    /\ probe.pc = "decided"
    /\ Len(probe.ledger) = 3
    /\ \A i \in 1..3 : probe.ledger[i].date[1] = probe.day
    /\ probe.ledger[1] = [date |-> <<probe.day, 18>>, status |-> "login",
                          type |-> "user-input"]
    /\ probe.ledger[2].status = "login" /\ probe.ledger[2].date[2] = 8
    /\ probe.ledger[3].status = "logout" /\ probe.ledger[3].date[2] = 17
    /\ probe.analysis.needsLogout

\* C7: a run that has enumerated the students processes every one of them,
\* whatever fails for one student, and lists each failure in its error list
C7_PerStudentIsolation ==
    \A j \in Jobs :
        (job[j].pc = "returned" /\ job[j].idx >= 1) =>
            /\ job[j].processedCount = NumStudents
            /\ Len(job[j].studentsAnalyzed) + Len(job[j].errors) = NumStudents

\* C8: the run fails as a whole only when the enumeration of the students
\* failed; once the students are enumerated it returns the report, in which
\* every student has either an outcome or an entry of the error list
C8_FailsOnlyOnEnumeration ==
    \A j \in Jobs :
        job[j].pc = "returned" =>
            /\ job[j].outcome \in {"report", "failed"}
            /\ job[j].outcome = "failed" <=> job[j].idx = 0
            /\ job[j].idx >= 1 =>
                 Len(job[j].studentsAnalyzed) + Len(job[j].errors) = NumStudents

\* a run whose store write failed for a student has returned its report with
\* the failure in the error list
C8_Witness ==
    \E j \in Jobs :
        /\ job[j].pc = "returned"
        /\ job[j].outcome = "report"
        /\ Len(job[j].errors) >= 1
        /\ job[j].processedCount = NumStudents

\* C9: when the notification fails after the attendance write, the update
\* still returns success and the store is left as the write made it
C9_NotificationFailureSwallowed ==
    [][\A c \in Calls :
          (UpdNotify(c) /\ upd'[c].notified \in {"threw", "rejected"}) =>
              /\ upd[c].wrote
              /\ upd'[c].outcome = "success"
              /\ store' = store]_vars

\* the update has returned success although the notification threw, and the
\* appended record is the last of the stored ledger
C9_Witness ==
    \E c \in Calls :
        /\ upd[c].pc = "returned"
        /\ upd[c].notified = "threw"
        /\ upd[c].outcome = "success"
        /\ HistoryOf(store[upd[c].student._id]) # <<>>
        /\ Last(HistoryOf(store[upd[c].student._id])) = upd[c].newRecord

\* C10: the notification is invoked only in a call whose store write has
\* succeeded; a call whose write failed has notified nobody
C10_NotifyAfterPersist ==
    \A c \in Calls :
        /\ (upd[c].notified # "none" \/ upd[c].dispatched # {}) => upd[c].wrote
        /\ upd[c].pc = "notify" => upd[c].wrote

\* a call has written its record and then triggered the automation for the
\* student's guardians
C10_Witness ==
    \E c \in Calls :
        /\ upd[c].pc = "returned"
        /\ upd[c].wrote
        /\ upd[c].dispatched = {"p1", "p2"}

\* C11: no run of the Reconciliation Job triggers a guardian notification,
\* and sendAttendanceNotification called with isSystemFix = true triggers none
\* and does not fail, whatever its other arguments and whatever the store and
\* the automation do
C11_NoNotificationForSystemFix ==
    /\ \A j \in Jobs : job[j].dispatched = {}
    /\ \A s \in Students, st \in {"login", "logout"}, prepFailed \in BOOLEAN,
          rejected \in SUBSET ParentIds :
          LET r == sendAttendanceNotification(s, st, TRUE, prepFailed, rejected)
          IN  r.triggered = {} /\ ~r.threw

\* a run has added the system-fix logout of a student who has a guardian
\* that can be notified, and has returned its report
C11_Witness ==
    \E j \in Jobs :
        /\ job[j].pc = "returned"
        /\ job[j].systemLogoutsAdded >= 1
        /\ \E i \in 1..Len(job[j].studentsAnalyzed) :
              /\ job[j].studentsAnalyzed[i].action = "system_logout_added"
              /\ \E p \in ParentsOf(job[j].studentsAnalyzed[i].student) :
                    p.memberReference # ""
        /\ job[j].dispatched = {}

\* C12: when a call of the Record Update Service has persisted its record and
\* has returned, the automation has been triggered for every guardian
\* assigned to the student
C12_EveryGuardianNotifiedOnce ==
    \A c \in Calls :
        (upd[c].pc = "returned" /\ upd[c].wrote) =>
            upd[c].dispatched = {p._id : p \in ParentsOf(upd[c].student._id)}

\* C13: a call whose reference resolves to no student ends, when its query
\* returns, with an error thrown to the caller, without any store write and
\* without any notification
C13_NotFoundSurfaced ==
    [][\A c \in ServiceCalls :
          (UpdQueryReturn(c) /\ QueryByChildId(upd[c].studentId) = {}) =>
              /\ upd'[c].pc = "returned"
              /\ upd'[c].outcome = "error"
              /\ ~upd'[c].wrote
              /\ upd'[c].dispatched = {} /\ upd'[c].notified = "none"
              /\ store' = store]_vars

\* a call made with a well-formed reference that no student carries has
\* returned its error
C13_Witness ==
    \E c \in ServiceCalls :
        /\ upd[c].pc = "returned"
        /\ upd[c].studentId = "999"
        /\ upd[c].status \in {"login", "logout"}
        /\ upd[c].outcome = "error"
        /\ ~upd[c].wrote

\* the arguments the validation is there to reject
InvalidInput(studentId, status) ==
    \/ studentId \in {"", NotAString}
    \/ status \notin {"login", "logout"}

\* C14: a call with a status outside {login, logout} or with a malformed
\* (missing or non-string) reference is rejected on entry: it never waits for
\* a store read or a store write, it has read no student, written nothing and
\* notified nobody
C14_InvalidInputRejectedBeforeIO ==
    \A c \in ServiceCalls :
        (upd[c].pc # "idle" /\ InvalidInput(upd[c].studentId, upd[c].status)) =>
            /\ upd[c].pc = "returned"
            /\ upd[c].outcome = "error"
            /\ upd[c].student = Null
            /\ ~upd[c].wrote
            /\ upd[c].dispatched = {} /\ upd[c].notified = "none"

\* a call with a status outside {login, logout} and a call with a reference
\* that is not a string have both been rejected
C14_Witness ==
    \E c, d \in ServiceCalls :
        /\ upd[c].pc = "returned" /\ upd[c].outcome = "error"
        /\ upd[c].studentId = "101" /\ upd[c].status = "pause"
        /\ upd[d].pc = "returned" /\ upd[d].outcome = "error"
        /\ upd[d].studentId = NotAString /\ upd[d].status = "login"

\* C15: a call writes the ledger it read plus its own record, whatever has
\* been stored since it read; so of two calls for one student that both read
\* before either writes, both succeed and the ledger keeps one record only
C15_WritesReadLedgerPlusOne ==
    [][\A c \in ServiceCalls :
          UpdWriteOk(c) =>
              HistoryOf(store'[upd[c].student._id])
                  = Append(HistoryOf(upd[c].student), upd[c].newRecord)]_vars

\* two calls for the same student have both written and returned success,
\* with different records, and the stored ledger holds only one of the two
C15_Witness ==
    \E c, d \in ServiceCalls :
        /\ c # d
        /\ upd[c].pc = "returned" /\ upd[c].outcome = "success" /\ upd[c].wrote
        /\ upd[d].pc = "returned" /\ upd[d].outcome = "success" /\ upd[d].wrote
        /\ upd[c].student._id = upd[d].student._id
        /\ upd[c].newRecord # upd[d].newRecord
        /\ HistoryOf(store[upd[c].student._id]) = <<upd[d].newRecord>>

\* the calls of the Record Update Service that have started and not returned
InFlight == {c \in DOMAIN upd : upd[c].pc \in {"query", "write", "verify", "notify"}}

\* C16: at most one confirmation is in flight at a time at the kiosk
C16_OneConfirmationInFlight == Cardinality(InFlight) <= 1

\* the ledger before is kept, record for record, at the front of the ledger
\* after
KeepsLedger(before, after) ==
    /\ Len(after) >= Len(before)
    /\ \A i \in 1..Len(before) : after[i] = before[i]

\* C17: no write of the Record Update Service or of the Reconciliation Job
\* removes a record from a stored ledger: every record stored before the
\* write, a user-input record persisted during a job run included, is still
\* there after it
C17_LedgerNeverShrinks ==
    [][\A s \in Students :
          ((\E c \in Calls : UpdWriteOk(c)) \/ (\E j \in Jobs : JobWriteOk(j)))
              => KeepsLedger(HistoryOf(store[s]), HistoryOf(store'[s]))]_vars

\* C18: a confirmation whose update has failed has left the student's stored
\* aggregate unchanged: the call that returned the error has written nothing
\* (so that the retry starts from the ledger as it was before the first
\* attempt and adds exactly one record to it)
C18_FailedUpdateWroteNothing ==
    \A c \in Calls :
        (upd[c].pc = "returned" /\ upd[c].outcome = "error") => ~upd[c].wrote

\* the moment a timestamp stands for, in seconds of JST: the instant of the
\* call for create24HTimestamp, 22:00:00 of the call's JST day for
\* createJSTTimestamp(22, 0, 0)
DenotedTime(p) ==
    LET jst == p.at + JstOffset IN
    IF p.call = "create24HTimestamp" THEN jst
    ELSE (jst \div (24 * 60 * 60)) * (24 * 60 * 60) + SystemLogoutHour * 3600

\* C19: every timestamp the codec produces has the fixed-width form
\* YYYY-MM-DD HH:MM:SS, and of any two of them the one that is smaller as a
\* string is the one that stands for the earlier moment
C19_CanonicalAndOrdered ==
    probe.pc = "encoded" =>
        /\ validateTimestampString(probe.a)
        /\ validateTimestampString(probe.b)
        /\ StringLess(probe.a, probe.b)
              <=> DenotedTime(probe.first) < DenotedTime(probe.second)
        /\ probe.a = probe.b
              <=> DenotedTime(probe.first) = DenotedTime(probe.second)

\* a timestamp of 30 September and one of 1 October, the later one smaller
\* in its day and hour digits, have been produced in the right order
C19_Witness ==
    /\ probe.pc = "encoded"
    /\ probe.first.call = "create24HTimestamp"
    /\ probe.second.call = "create24HTimestamp"
    /\ probe.a = <<"2", "0", "2", "4", "-", "0", "9", "-", "3", "0", " ",
                   "2", "1", ":", "5", "9", ":", "5", "9">>
    /\ probe.b = <<"2", "0", "2", "4", "-", "1", "0", "-", "0", "1", " ",
                   "0", "9", ":", "0", "0", ":", "0", "0">>
    /\ StringLess(probe.a, probe.b)

\* the positions of the ledger whose record is of the given day
OfDay(ledger, day) == {i \in 1..Len(ledger) : ledger[i].date[1] = day}

\* the rows the formatter has produced for the given day
RowsOfDay(rows, day) == SelectSeq(rows, LAMBDA row : row.dayKey = day)

\* C20: for a day that holds one login and one later logout the formatter
\* gives exactly one row, with that login's time and that logout's time; for
\* a day that holds one login and nothing else it gives exactly one row,
\* with the login's time and the placeholder as logout; whatever the other
\* days hold and in whatever order the records were entered
C20_PairAndLoneLogin ==
    probe.pc = "formatted" =>
        \A day \in ProbeDays :
            LET today == OfDay(probe.ledger, day)
                dayRows == RowsOfDay(probe.rows, day)
            IN  /\ \A i, k \in today :
                      (/\ today = {i, k} /\ i # k
                       /\ probe.ledger[i].status = "login"
                       /\ probe.ledger[k].status = "logout"
                       /\ Earlier(probe.ledger[i].date, probe.ledger[k].date))
                      => /\ Len(dayRows) = 1
                         /\ dayRows[1].login = formatTime(probe.ledger[i].date)
                         /\ dayRows[1].logout = formatTime(probe.ledger[k].date)
                /\ \A i \in today :
                      (today = {i} /\ probe.ledger[i].status = "login")
                      => /\ Len(dayRows) = 1
                         /\ dayRows[1].login = formatTime(probe.ledger[i].date)
                         /\ dayRows[1].logout = Placeholder

\* the logout of 17:00 was entered before the login of 08:00 of the same
\* day, a lone login is on the other day: two rows, the pair and the login
\* with the placeholder
C20_Witness ==
    /\ probe.pc = "formatted"
    /\ Len(probe.ledger) = 3
    /\ probe.ledger[1] = [date |-> <<1, 17>>, status |-> "logout", type |-> "user-input"]
    /\ probe.ledger[2] = [date |-> <<1, 8>>, status |-> "login", type |-> "user-input"]
    /\ probe.ledger[3] = [date |-> <<0, 18>>, status |-> "login", type |-> "user-input"]
    /\ Len(probe.rows) = 2
    /\ probe.rows[1].logout = Placeholder
    /\ probe.rows[2].login = <<"0", "8", ":", "0", "0">>
    /\ probe.rows[2].logout = <<"1", "7", ":", "0", "0">>


\* the times of day a record of a probe ledger can carry
RecordTimes == ProbeTimes \cup {SystemLogoutHour}

\* the number of records of the ledger with the given day, status and time
RecordCount(ledger, day, status, time) ==
    Cardinality({i \in OfDay(ledger, day) :
                    ledger[i].status = status /\ ledger[i].date[2] = time})

\* the number of rows of the day that show the given time in the column
\* ("login" or "logout") of the given status
RowCount(rows, day, status, time) ==
    Cardinality({k \in 1..Len(rows) :
                    /\ rows[k].dayKey = day
                    /\ rows[k][status] = formatTime(<<day, time>>)})

\* C21: the rows account for every record of the ledger exactly once: for
\* every day and time, as many rows of that day show the time in the login
\* column as the ledger holds login records of that day and time, and as
\* many rows show it in the logout column as the ledger holds such logout
\* records; no record is left out and none is shown twice
C21_EveryRecordInOneRow ==
    probe.pc = "formatted" =>
        \A day \in ProbeDays, time \in RecordTimes, status \in {"login", "logout"} :
            RowCount(probe.rows, day, status, time)
                = RecordCount(probe.ledger, day, status, time)


\* the number of places at which sub occurs in str
Occurrences(sub, str) ==
    Cardinality({k \in 1..(Len(str) - Len(sub) + 1) :
                    SubSeq(str, k, k + Len(sub) - 1) = sub})

\* the positions of the ledger that hold a logout added by the job
SystemFixLogouts(ledger) ==
    {i \in 1..Len(ledger) :
        ledger[i].status = "logout" /\ ledger[i].type = "system-fix"}

\* the page's table shows the record at position i as the marker and does
\* not show its time
PageShowsMarker(i) ==
    LET record == probe.ledger[i]
        dayRows == RowsOfDay(probe.rows, DayKeyOf(record))
    IN  /\ \E k \in 1..Len(dayRows) : dayRows[k].logout = Marker
        /\ \A k \in 1..Len(dayRows) : dayRows[k].logout # formatTime(record.date)

\* the backend's row of the record's day shows the marker and not the time
BackendShowsMarker(i) ==
    LET record == probe.ledger[i]
    IN  \E k \in 1..Len(probe.attendanceData) :
            /\ probe.attendanceData[k].date = DayKeyOf(record)
            /\ Occurrences(Marker, probe.attendanceData[k].logout) >= 1
            /\ Occurrences(formatTime(record.date),
                           probe.attendanceData[k].logout) = 0

\* C22: in the output of the formatter, the page's table and the backend's
\* rows alike, a logout record whose origin is system-fix is shown as the
\* marker # and its time (22:00, which no other record carries) is not shown
C22_SystemFixShownAsMarker ==
    probe.pc = "formatted" =>
        \A i \in SystemFixLogouts(probe.ledger) :
            PageShowsMarker(i) /\ BackendShowsMarker(i)


\* the page's table lists no day before a later one
PageNewestFirst ==
    \A k, m \in 1..Len(probe.rows) :
        k < m => probe.rows[k].dayKey >= probe.rows[m].dayKey

\* the backend's rows, one per day, list the days from the latest to the
\* earliest
BackendNewestFirst ==
    \A k, m \in 1..Len(probe.attendanceData) :
        k < m => probe.attendanceData[k].date > probe.attendanceData[m].date

\* C23: the rows of the formatter's output, the page's table and the
\* backend's rows alike, are ordered newest day first, in whatever order the
\* records were entered in the ledger
C23_RowsNewestDayFirst ==
    probe.pc = "formatted" => PageNewestFirst /\ BackendNewestFirst


\* the number of entries the report of run j holds for student s: its
\* outcomes in studentsAnalyzed and its entries in errors (which name the
\* student by student.name || student._id)
ReportEntries(j, s) ==
    Cardinality({k \in 1..Len(job[j].studentsAnalyzed) :
                    job[j].studentsAnalyzed[k].student = s})
    + Cardinality({k \in 1..Len(job[j].errors) :
                      job[j].errors[k] \in {s, InitialStudent(s).name}})

\* C24: in the report a run returns, processedStudents is the number of
\* students enumerated, systemLogoutsAdded is the number of students whose
\* stored item the run replaced and the number of system_logout_added
\* outcomes, and every student has exactly one entry across studentsAnalyzed
\* and errors
C24_ReportCounts ==
    \A j \in Jobs :
        (job[j].pc = "returned" /\ job[j].outcome = "report") =>
            /\ job[j].processedCount = NumStudents
            /\ job[j].systemLogoutsAdded = Cardinality(job[j].written)
            /\ job[j].systemLogoutsAdded =
                   Cardinality({k \in 1..Len(job[j].studentsAnalyzed) :
                       job[j].studentsAnalyzed[k].action = "system_logout_added"})
            /\ \A s \in Students : ReportEntries(j, s) = 1

\* a report of a run in which one student's logout was written and the
\* other student's write was rejected
C24_Witness ==
    \E j \in Jobs :
        /\ job[j].pc = "returned" /\ job[j].outcome = "report"
        /\ job[j].systemLogoutsAdded = 1
        /\ Len(job[j].errors) = 1
        /\ Len(job[j].studentsAnalyzed) = 1


\* the ledger run j read for the student whose item it is about to write:
\* the pending item's ledger without the record the run appended
LedgerRead(j) ==
    SubSeq(job[j].pending.attendanceHistory, 1,
           Len(job[j].pending.attendanceHistory) - 1)

\* run j replaces the stored item of student s in this step
RunWrites(j, s) == s \in job'[j].written /\ s \notin job[j].written

\* C25: a run replaces the stored item of a student only when the ledger it
\* read for that student holds a record dated the run's day and the decision
\* as specified flags it, and a step of a run changes the stored item of no
\* other student; so a student with no record of the run's day is left as
\* stored, whatever the last record of the ledger is
C25_WritesOnlyFlagged ==
    [][/\ \A j \in Jobs, s \in Students :
            RunWrites(j, s) =>
                /\ job[j].pending._id = s
                /\ \E i \in 1..Len(LedgerRead(j)) :
                       LedgerRead(j)[i].date[1] = job[j].todayPrefix
                /\ C6_Expected(LedgerRead(j), job[j].todayPrefix)
       /\ \A s \in Students :
            (job' # job /\ store'[s] # store[s]) => \E j \in Jobs : RunWrites(j, s)
      ]_vars

\* a run of day 1 has returned its report; the second student's ledger ends
\* with the login of day 0 and holds no record of day 1, and the run has
\* reported no_records_today for that student and left the item as it was
C25_Witness ==
    \E j \in Jobs :
        /\ job[j].pc = "returned" /\ job[j].outcome = "report"
        /\ job[j].todayPrefix = 1
        /\ "s2" \notin job[j].written
        /\ store["s2"] = [InitialStudent("s2") EXCEPT
               !.attendanceHistory = <<createAttendanceRecord(0, "login")>>]
        /\ \E k \in 1..Len(job[j].studentsAnalyzed) :
               /\ job[j].studentsAnalyzed[k].student = "s2"
               /\ job[j].studentsAnalyzed[k].action = "no_action_needed"
               /\ job[j].studentsAnalyzed[k].reason = "no_records_today"


\* a record as the data model defines it
WellFormed(record) ==
    /\ DOMAIN record = {"date", "status", "type"}
    /\ validateTimestamp(record.date)
    /\ record.status \in {"login", "logout"}
    /\ record.type \in {"user-input", "system-fix"}
    /\ record.type = "system-fix" => record.status = "logout"

\* the update service call c stores its item in this step
ServiceWrites(c) == upd'[c].wrote /\ ~upd[c].wrote

\* C26: after every step each record of each stored ledger is well formed
\* (a valid timestamp, status login or logout, origin user-input or
\* system-fix, system-fix only with logout); the item the Record Update
\* Service stores ends with a user-input record of the requested status and
\* the item a run of the job stores ends with a system-fix logout
C26_AppendedRecordsWellFormed ==
    [][/\ \A s \in Students : \A i \in 1..Len(HistoryOf(store'[s])) :
              WellFormed(HistoryOf(store'[s])[i])
       /\ \A c \in DOMAIN upd :
              ServiceWrites(c) =>
                  LET id == upd[c].updatedStudent._id
                      appended == Last(HistoryOf(store'[id]))
                  IN  /\ appended.type = "user-input"
                      /\ appended.status = upd[c].status
                      /\ appended.status \in {"login", "logout"}
       /\ \A j \in Jobs, s \in Students :
              RunWrites(j, s) =>
                  LET appended == Last(HistoryOf(store'[s]))
                  IN  /\ appended.type = "system-fix"
                      /\ appended.status = "logout"
      ]_vars

\* the first student's stored ledger holds the login confirmed at the kiosk
\* and the logout a run of the job has added to it
C26_Witness ==
    \E j \in Jobs :
        /\ "s1" \in job[j].written
        /\ store["s1"].attendanceHistory =
               <<createAttendanceRecord(0, "login"), newLogoutRecord(0)>>


\* C27: when the lightbox closes with success, the timestamp in the result
\* it hands to the kiosk page is the timestamp of the record the awaited
\* update appended to the student's ledger
C27_ReportedTimestampIsRecorded ==
    [][(/\ lb.pc = "updating" /\ lb'.pc = "closing"
        /\ lb'.result.success)
       => lb'.result.timestamp = upd[lb.awaiting].newRecord.date]_vars


\* the characters of the decimal digits
DecimalDigits == {DigitChars[k] : k \in 1..Len(DigitChars)}

\* C28: the input buffer is always a string of at most 8 decimal digits, and
\* while the confirmation is open the page is ready and the childId it was
\* opened with is a non-empty string of at most 8 decimal digits
C28_BufferBoundedAndOpenGuarded ==
    probe.pc = "keypad" =>
        /\ Len(probe.inputId) <= 8
        /\ \A k \in 1..Len(probe.inputId) : probe.inputId[k] \in DecimalDigits
        /\ probe.lightbox # NoRecord =>
               /\ probe.isReady
               /\ Len(probe.lightbox.childId) \in 1..8
               /\ \A k \in 1..Len(probe.lightbox.childId) :
                      probe.lightbox.childId[k] \in DecimalDigits

\* the buffer is full, a ninth digit has no effect, and the confirmation has
\* been opened with the eight digits
C28_Witness ==
    /\ probe.pc = "keypad"
    /\ probe.inputId = <<"7", "0", "7", "0", "7", "0", "7", "0">>
    /\ ~ENABLED handleInput(7)
    /\ probe.lightbox # NoRecord
    /\ probe.lightbox.childId = probe.inputId


\* the guardians of the student the automation can be triggered for: those
\* with a member reference
Reachable(studentId) ==
    {p._id : p \in {q \in Parents : studentId \in q.assignedStudents
                                    /\ q.memberReference # ""}}

\* C29: in a call for a user-driven change whose notification data was
\* prepared, whichever guardians' triggers reject, the automation is
\* triggered for every guardian of the student that has a member reference,
\* the same set as when none rejects, and the call returns (does not throw)
\* with failCount the number of rejected triggers
C29_DispatchFailureIsolated ==
    (probe.pc = "settled" /\ ~probe.isSystemFix /\ ~probe.prepFailed) =>
        /\ probe.result.triggered = Reachable(probe.studentId)
        /\ ~probe.result.threw
        /\ probe.result.failCount =
               Cardinality(probe.rejected \cap Reachable(probe.studentId))

\* the first student has two guardians; the trigger for p1 rejects, the
\* trigger for p2 is run all the same and the call returns with one failure
C29_Witness ==
    /\ probe.pc = "settled"
    /\ probe.studentId = "s1"
    /\ probe.rejected = {"p1"}
    /\ probe.result.triggered = {"p1", "p2"}
    /\ ~probe.result.threw
    /\ probe.result.failCount = 1


\* the member is the member of a guardian the student is assigned to
AssignedGuardian(member, studentId) ==
    /\ member # NoMember
    /\ \E p \in Parents :
           p.memberReference = member /\ studentId \in p.assignedStudents

\* C30: an answer that carries attendance data is an answer to a member who
\* is a guardian of the student asked for, and it carries that student's
\* data; every other caller gets a failure that consists of an error message
\* and nothing else, whatever the ledgers hold
C30_OnlyAssignedGuardianReads ==
    probe.pc = "answered" =>
        /\ ~probe.result.threw =>
               /\ AssignedGuardian(probe.member, probe.studentId)
               /\ probe.result.studentName = store[probe.studentId].name
        /\ ~AssignedGuardian(probe.member, probe.studentId) =>
               /\ probe.result.threw
               /\ DOMAIN probe.result = {"threw", "message"}
               /\ probe.result.message \in
                      {"Student ID is required",
                       "No parent data found - access denied",
                       "Unauthorized: Student not assigned to this parent"}

\* the member of guardian p1, to whom only the first student is assigned,
\* asks for the second student, whose ledger is not empty: the call fails
C30_Witness ==
    /\ probe.pc = "answered"
    /\ probe.member = "m1" /\ probe.studentId = "s2"
    /\ store["s2"].attendanceHistory # <<>>
    /\ probe.result.threw
    /\ probe.result.message = "Unauthorized: Student not assigned to this parent"


\* the students run j has visited are the first processedCount of the
\* enumeration, each visited once: the loop is at the next one, or is
\* waiting for the write of the last one visited, or has visited all
VisitedInOrder(j) ==
    /\ job[j].pc = "loop" =>
           /\ job[j].idx \in 1..NumStudents
           /\ job[j].processedCount = job[j].idx - 1
    /\ job[j].pc = "write" =>
           /\ job[j].idx \in 1..NumStudents
           /\ job[j].processedCount = job[j].idx
           /\ job[j].pending._id = StudentOrder[job[j].idx]
    /\ (job[j].pc = "returned" /\ job[j].outcome = "report") =>
           job[j].processedCount = NumStudents

\* run j's store write of this step is the first for its student
FirstWriteForStudent(j) ==
    job'[j].systemLogoutsAdded = job[j].systemLogoutsAdded + 1 =>
        /\ job[j].pending._id \notin job[j].written
        /\ job'[j].systemLogoutsAdded = Cardinality(job'[j].written)

\* C31: a run visits the enumerated students one after the other, each once;
\* it writes the stored item of a student at most once; and once it has
\* enumerated the students it ends with its report, given that each of its
\* store calls returns or fails
C31_RunVisitsOnceAndTerminates ==
    /\ [](\A j \in Jobs : VisitedInOrder(j))
    /\ [][\A j \in Jobs : FirstWriteForStudent(j)]_vars
    /\ \A j \in Jobs :
           (job[j].pc = "loop") ~>
               (job[j].pc = "returned" /\ job[j].outcome = "report")

\* a run has ended with its report after it has written the items of both
\* students, each once
C31_Witness ==
    \E j \in Jobs :
        /\ job[j].pc = "returned" /\ job[j].outcome = "report"
        /\ job[j].processedCount = NumStudents
        /\ job[j].written = Students
        /\ job[j].systemLogoutsAdded = 2


\* C32: with update service calls and runs of the job interleaved in any
\* way, two runs overlapping included, no stored ledger holds two system-fix
\* logout records whose dates have the same day prefix
C32_NoDuplicateWhenRunsOverlap ==
    \A s \in Students :
        \A i, k \in 1..Len(HistoryOf(store[s])) :
            LET history == HistoryOf(store[s]) IN
            (/\ i # k
             /\ history[i].type = "system-fix" /\ history[i].status = "logout"
             /\ history[k].type = "system-fix" /\ history[k].status = "logout")
            => history[i].date[1] # history[k].date[1]

\* the record at position i is the chronologically last one of its day
LastOfItsDay(ledger, i) ==
    \A k \in OfDay(ledger, ledger[i].date[1]) \ {i} : SortsAfter(ledger, i, k)

\* C33: when a run has returned its report without an error (no kiosk update
\* having overlapped it), every student with a record dated the day the run
\* checked has a logout as the chronologically last record of that day
C33_NobodyLeftLoggedIn ==
    \A j \in Jobs :
        (job[j].pc = "returned" /\ job[j].outcome = "report" /\ job[j].errors = <<>>)
        => \A s \in Students :
               LET ledger == HistoryOf(store[s]) IN
               \A i \in OfDay(ledger, job[j].todayPrefix) :
                   LastOfItsDay(ledger, i) => ledger[i].status = "logout"

\* C34: right after a run of the job has stored a student's ledger with the
\* system-fix logout appended, the lightbox's next-action rule applied to the
\* stored student gives "login"
C34_LoginFollowsSystemFix ==
    [][\A j \in Jobs :
          JobWriteOk(j) => NextActionOf(store'[job[j].pending._id]) = "login"]_vars

\* a run has stored a ledger that ends with its system-fix logout after a
\* login
C34_Witness ==
    \E j \in Jobs, s \in Students :
        LET ledger == HistoryOf(store[s]) IN
        /\ s \in job[j].written
        /\ Len(ledger) >= 2
        /\ Last(ledger).type = "system-fix"
        /\ ledger[Len(ledger) - 1].status = "login"

\* the statuses of the ledger alternate in insertion order, login first
Alternates(ledger) ==
    /\ ledger # <<>> => ledger[1].status = "login"
    /\ \A i \in 1..(Len(ledger) - 1) : ledger[i].status # ledger[i + 1].status

\* C35: when kiosk confirmations and runs of the job follow one another
\* without overlapping and the clock only moves forward, the statuses of
\* every stored ledger alternate in insertion order, starting with login
C35_StatusesAlternate ==
    \A s \in Students : Alternates(HistoryOf(store[s]))

\* C36: on every ledger of canonical records and every day, the decision of
\* attendanceSystemCheck.js (needsAutomaticLogout) is true exactly when the
\* decision of part_002 (studentNeedsAutomaticLogout) reports needsLogout
C36_DecisionsAgree ==
    probe.pc = "decided" => (probe.needsLogout <=> probe.analysis.needsLogout)

\* both decisions taken on a ledger that holds a logout and a later login of
\* the day, entered in another order, and both flag the student
C36_Witness ==
    /\ probe.pc = "decided"
    /\ probe.needsLogout
    /\ \E i, k \in OfDay(probe.ledger, probe.day) :
          /\ i < k
          /\ probe.ledger[i].status = "login"
          /\ probe.ledger[k].status = "logout"
          /\ Earlier(probe.ledger[k].date, probe.ledger[i].date)

\* C37: the system-fix record a run has built for a flagged student is dated
\* the day the run decided for (the checkDate of its report), also when the
\* clock has moved on since the run started
C37_RecordDatedCheckDate ==
    \A j \in Jobs :
        job[j].pc = "write" =>
            Last(HistoryOf(job[j].pending)).date[1] = job[j].todayPrefix

\* C38: a birthday change from the guardian's history page leaves the
\* student's stored ledger and every other stored field except birthday as
\* they were
C38_BirthdayChangeKeepsOtherFields ==
    [][\A s \in Students, b \in Birthdays :
          BirthdayChange(s, b) => store'[s] = [store[s] EXCEPT !.birthday = b]]_vars

====
